---- MODULE Spec2Model ----
(***************************************************************************)
(* Model of the shader AST rewriting passes of                             *)
(* Plugins/NativeEngine/Source/ShaderCompilerTraversers.cpp.               *)
(*                                                                         *)
(* A stage's tree is an arena: a sequence of nodes addressed by their      *)
(* index, so that "the same node" (pointer identity in the C++) is "the    *)
(* same index".  Index 0 is the null pointer.  Every pass is one action    *)
(* that runs the pass's whole public entry point over the program.         *)
(***************************************************************************)
EXTENDS Integers, Sequences, FiniteSets, TLC

\* ------------------------------------------------------------------ bounds
\* Largest number of declarations in a generated linker-object section.
MaxDecls == 3
\* Deepest chain of unary operators in a generated fragment expression.
MaxNest == 2
\* Largest number of passes one compilation runs.
MaxPasses == 2
\* Largest number of vertex inputs in a wide vertex stage.
MaxInputs == 19

\* value of an unset layout field (glslang's layoutLocationEnd and friends)
Unset == -1
\* the null pointer
Null == 0

\* --------------------------------------------------------------- std::string
\* The names of the vertex inputs of the wide vertex stages: v and two digits.
WideNames ==
    << "v00", "v01", "v02", "v03", "v04", "v05", "v06", "v07", "v08", "v09", "v10",
       "v11", "v12", "v13", "v14", "v15", "v16", "v17", "v18", "v19", "v20", "v21" >>

WideCharCodes ==
    [ name \in { WideNames[k] : k \in DOMAIN WideNames } |->
        LET k == CHOOSE j \in DOMAIN WideNames : WideNames[j] = name
        IN <<118, 48 + ((k - 1) \div 10), 48 + ((k - 1) % 10)>> ]

\* The bytes of every name the generated programs declare; std::map orders its
\* keys by comparing these bytes.
CharCodes ==
    WideCharCodes @@
    ("a" :> <<97>>) @@ ("b" :> <<98>>) @@ ("c" :> <<99>>) @@
    ("arr" :> <<97, 114, 114>>) @@ ("tex" :> <<116, 101, 120>>) @@
    ("s" :> <<115>>) @@ ("position" :> <<112, 111, 115, 105, 116, 105, 111, 110>>) @@
    ("uv2" :> <<117, 118, 50>>) @@ ("splat" :> <<115, 112, 108, 97, 116>>) @@
    ("vUV" :> <<118, 85, 86>>) @@ ("t" :> <<116>>) @@
    ("a_position" :> <<97, 95, 112, 111, 115, 105, 116, 105, 111, 110>>) @@
    ("arr2" :> <<97, 114, 114, 50>>)

\* std::string::operator< : byte-wise lexicographic, a proper prefix is smaller
RECURSIVE SeqLess(_, _)
SeqLess(x, y) ==
    IF y = <<>> THEN FALSE
    ELSE IF x = <<>> THEN TRUE
    ELSE IF Head(x) # Head(y) THEN Head(x) < Head(y)
    ELSE SeqLess(Tail(x), Tail(y))

StrLess(x, y) == SeqLess(CharCodes[x], CharCodes[y])

\* The keys of a std::map in iteration order (ascending by StrLess).
RECURSIVE SortedKeys(_)
SortedKeys(keys) ==
    IF keys = {} THEN <<>>
    ELSE LET least == CHOOSE k \in keys : \A o \in keys \ {k} : StrLess(k, o)
         IN <<least>> \o SortedKeys(keys \ {least})

\* ---------------------------------------------------------------- types
\* TQualifier{} followed by clearLayout()
ClearedQualifier ==
    [storage |-> "EvqTemporary", precision |-> "EpqNone",
     layoutMatrix |-> "ElmNone", layoutPacking |-> "ElpNone",
     layoutBinding |-> Unset, layoutLocation |-> Unset]

\* TSampler{}
NoSampler == [type |-> "EbtVoid", dim |-> "EsdNone", combined |-> FALSE, sampler |-> FALSE]

\* TPublicType{} : value-initialised, every member zero
ZeroPublicType ==
    [basicType |-> "EbtVoid", sampler |-> NoSampler, qualifier |-> ClearedQualifier,
     vectorSize |-> 0, matrixCols |-> 0, matrixRows |-> 0, arraySizes |-> <<>>]

\* TPublicType::setVector / setMatrix
setVector(p, s) == [p EXCEPT !.vectorSize = s, !.matrixCols = 0, !.matrixRows = 0]
setMatrix(p, c, r) == [p EXCEPT !.vectorSize = 0, !.matrixCols = c, !.matrixRows = r]

\* TType{publicType}
TypeOf(p) ==
    [basicType |-> p.basicType, vectorSize |-> p.vectorSize,
     matrixCols |-> p.matrixCols, matrixRows |-> p.matrixRows,
     arraySizes |-> p.arraySizes, qualifier |-> p.qualifier, sampler |-> p.sampler,
     fieldName |-> "", typeName |-> "", structure |-> <<>>]

isMatrix(type) == type.matrixCols > 0
isVector(type) == type.vectorSize > 1
isArray(type) == type.arraySizes # <<>>
isUniformOrBuffer(q) == q.storage \in {"EvqUniform", "EvqBuffer"}

\* Types of the declarations the generated programs use.
SourceQualifier(storage, precision) ==
    [ClearedQualifier EXCEPT !.storage = storage, !.precision = precision]

VectorType(basic, size, storage) ==
    TypeOf([setVector(ZeroPublicType, size) EXCEPT
              !.basicType = basic, !.qualifier = SourceQualifier(storage, "EpqMedium")])

MatrixType(cols, rows, storage) ==
    TypeOf([setMatrix(ZeroPublicType, cols, rows) EXCEPT
              !.basicType = "EbtFloat", !.qualifier = SourceQualifier(storage, "EpqMedium")])

ArrayOf(type, sizes) == [type EXCEPT !.arraySizes = sizes]

CombinedSamplerType ==
    [VectorType("EbtSampler", 1, "EvqUniform") EXCEPT
        !.qualifier.precision = "EpqLow",
        !.sampler = [type |-> "EbtFloat", dim |-> "Esd2D", combined |-> TRUE, sampler |-> FALSE]]

VoidType == TypeOf(ZeroPublicType)

\* ---------------------------------------------------------------- nodes
SymbolNode(id, name, type) ==
    [kind |-> "Symbol", op |-> "EOpNull", kids |-> <<>>, name |-> name, id |-> id,
     type |-> type, val |-> 0]
AggregateNode(op, kids, type) ==
    [kind |-> "Aggregate", op |-> op, kids |-> kids, name |-> "", id |-> 0,
     type |-> type, val |-> 0]
BinaryNode(op, left, right, type) ==
    [kind |-> "Binary", op |-> op, kids |-> <<left, right>>, name |-> "", id |-> 0,
     type |-> type, val |-> 0]
UnaryNode(op, operand, type) ==
    [kind |-> "Unary", op |-> op, kids |-> <<operand>>, name |-> "", id |-> 0,
     type |-> type, val |-> 0]
ConstantNode(val, type) ==
    [kind |-> "Constant", op |-> "EOpNull", kids |-> <<>>, name |-> "", id |-> 0,
     type |-> type, val |-> val]
\* TIntermSelection: condition, true block, false block
SelectionNode(cond, trueBlock, falseBlock, type) ==
    [kind |-> "Selection", op |-> "EOpNull", kids |-> <<cond, trueBlock, falseBlock>>,
     name |-> "", id |-> 0, type |-> type, val |-> 0]

\* ------------------------------------------------------- input programs
\* A parsed stage is described as a nested expression and laid out in the
\* arena children first, so that every use of a variable is a node of its own
\* (the parser makes one TIntermSymbol per occurrence, all with the variable's
\* unique id, name and type).
Decl(name, type, id) == [name |-> name, type |-> type, id |-> id]

S(d) == [k |-> "sym", decl |-> d]
K(v) == [k |-> "const", val |-> v]
Un(op, x, type) == [k |-> "un", op |-> op, x |-> x, type |-> type]
Bin(op, l, r, type) == [k |-> "bin", op |-> op, l |-> l, r |-> r, type |-> type]
Agg(op, xs, type) == [k |-> "agg", op |-> op, xs |-> xs, type |-> type]
Sel(c, t, f, type) == [k |-> "sel", c |-> c, t |-> t, f |-> f, type |-> type]

\* The nodes of e, children before parents, numbered from base + 1; the last
\* one is the root of e.
RECURSIVE Flatten(_, _), FlattenAll(_, _)
Flatten(e, base) ==
    CASE e.k = "sym" -> <<SymbolNode(e.decl.id, e.decl.name, e.decl.type)>>
      [] e.k = "const" -> <<ConstantNode(e.val, VectorType("EbtInt", 1, "EvqConst"))>>
      [] e.k = "un" ->
           LET x == Flatten(e.x, base)
           IN Append(x, UnaryNode(e.op, base + Len(x), e.type))
      [] e.k = "bin" ->
           LET l == Flatten(e.l, base)
               r == Flatten(e.r, base + Len(l))
           IN Append(l \o r, BinaryNode(e.op, base + Len(l), base + Len(l) + Len(r), e.type))
      [] e.k = "agg" ->
           LET xs == FlattenAll(e.xs, base)
           IN Append(xs.nodes, AggregateNode(e.op, xs.ids, e.type))
      [] e.k = "sel" ->
           LET xs == FlattenAll(<<e.c, e.t, e.f>>, base)
           IN Append(xs.nodes, SelectionNode(xs.ids[1], xs.ids[2], xs.ids[3], e.type))
FlattenAll(es, base) ==
    IF es = <<>> THEN [nodes |-> <<>>, ids |-> <<>>]
    ELSE LET h == Flatten(Head(es), base)
             r == FlattenAll(Tail(es), base + Len(h))
         IN [nodes |-> h \o r.nodes, ids |-> <<base + Len(h)>> \o r.ids]

\* One stage's intermediate: the arena, the tree root and the nodes released
\* by RemoveAllTreeNodes.
Stage(e) ==
    LET nodes == Flatten(e, 0) IN [nodes |-> nodes, root |-> Len(nodes), freed |-> {}]

\* The variables the generated programs declare.
uA == Decl("a", VectorType("EbtFloat", 1, "EvqUniform"), 1)
uB == Decl("b", VectorType("EbtFloat", 2, "EvqUniform"), 2)
uC == Decl("c", MatrixType(4, 4, "EvqUniform"), 3)
uArr == Decl("arr", ArrayOf(VectorType("EbtFloat", 3, "EvqUniform"), <<2>>), 4)
uTex == Decl("tex", CombinedSamplerType, 5)
uS == Decl("s", CombinedSamplerType, 6)
aPosition == Decl("position", VectorType("EbtFloat", 3, "EvqVaryingIn"), 7)
aUv2 == Decl("uv2", VectorType("EbtFloat", 2, "EvqVaryingIn"), 8)
aSplat == Decl("splat", VectorType("EbtFloat", 1, "EvqVaryingIn"), 9)
vUV == Decl("vUV", VectorType("EbtFloat", 2, "EvqVaryingIn"), 10)
tmp == Decl("t", VectorType("EbtFloat", 4, "EvqTemporary"), 11)
aRaw == Decl("a_position", VectorType("EbtFloat", 4, "EvqVaryingIn"), 12)
uArr2 == Decl("arr2", ArrayOf(VectorType("EbtFloat", 3, "EvqUniform"), <<2>>), 13)

\* Families of declarations the linker-object sections are drawn from.
Universes ==
    { {uB, uA, uC, uArr, uTex}, {uTex, uS, uA, aPosition}, {aPosition, aUv2, aSplat, uB} }

Injective(f) == \A i, j \in DOMAIN f : i # j => f[i] # f[j]

\* every sequence of at most MaxDecls distinct declarations of one family
LinkerLists ==
    UNION { UNION { { l \in [1..n -> U] : Injective(l) } : n \in 0..MaxDecls } : U \in Universes }

isSamplerDecl(d) == d.type.basicType = "EbtSampler"
isInputDecl(d) == d.type.qualifier.storage = "EvqVaryingIn"

\* the type an expression over d yields: one element for an array
ElementType(d) == [d.type EXCEPT !.arraySizes = <<>>, !.qualifier.storage = "EvqTemporary"]

\* The statement that uses the i-th declaration of the list.  The shape of
\* the use site turns with i: both operands of a binary, two arguments of a
\* call, or the operand of a unary under a binary whose left is the previous
\* declaration (when that is a plain value).  An array is always indexed
\* first; a sampler is sampled.
UseOf(l, i) ==
    LET d == l[i]
        ty == ElementType(d)
        value == IF isArray(d.type) THEN Bin("EOpIndexDirect", S(d), K(1), ty) ELSE S(d)
        other == IF i > 1 /\ ~isSamplerDecl(l[i - 1]) /\ ~isArray(l[i - 1].type)
                 THEN S(l[i - 1]) ELSE S(tmp)
    IN IF isSamplerDecl(d)
       THEN Bin("EOpAssign", S(tmp), Agg("EOpTexture", <<S(d), S(tmp)>>, tmp.type), tmp.type)
       ELSE CASE i % 3 = 1 -> Bin("EOpAssign", S(tmp), Bin("EOpAdd", value, value, ty), ty)
              [] i % 3 = 2 -> Agg("EOpFunctionCall", <<value, S(tmp), value>>, ty)
              [] OTHER -> Bin("EOpMul", other, Un("EOpNegative", value, ty), ty)

\* The vertex stage of a linker list: one use per declaration, then the
\* linker-object section, last under the root.
VertexStage(l) ==
    Stage(Agg("EOpSequence",
              << Agg("EOpFunction", [i \in 1..Len(l) |-> UseOf(l, i)], VoidType),
                 Agg("EOpLinkerObjects", [i \in 1..Len(l) |-> S(l[i])], VoidType) >>,
              VoidType))

\* The statement that uses the i-th declaration as the second operand of a
\* conditional expression: t = t ? value : t.
TernaryUseOf(l, i) ==
    LET d == l[i]
        ty == ElementType(d)
        value == IF isArray(d.type) THEN Bin("EOpIndexDirect", S(d), K(1), ty) ELSE S(d)
    IN Bin("EOpAssign", S(tmp), Sel(S(tmp), value, S(tmp), ty), ty)

\* A vertex stage whose uses are all conditional expressions.
TernaryStage(l) ==
    Stage(Agg("EOpSequence",
              << Agg("EOpFunction", [i \in 1..Len(l) |-> TernaryUseOf(l, i)], VoidType),
                 Agg("EOpLinkerObjects", [i \in 1..Len(l) |-> S(l[i])], VoidType) >>,
              VoidType))

\* the declaration lists used under conditional expressions
TernaryLists == { <<uA>>, <<uArr>>, <<aSplat>>, <<aPosition, uB>> }

\* A vertex stage that compares two whole arrays: t = (arr == arr2) && t when
\* the comparison is on the left, t = t && (arr == arr2) when it is not.
ArrayComparisonStage(onLeft) ==
    LET bool == VectorType("EbtBool", 1, "EvqTemporary")
        equal == Bin("EOpEqual", S(uArr), S(uArr2), bool)
        both == IF onLeft THEN Bin("EOpLogicalAnd", equal, S(tmp), bool)
                ELSE Bin("EOpLogicalAnd", S(tmp), equal, bool)
    IN Stage(Agg("EOpSequence",
                 << Agg("EOpFunction", <<Bin("EOpAssign", S(tmp), both, bool)>>, VoidType),
                    Agg("EOpLinkerObjects", <<S(uArr), S(uArr2)>>, VoidType) >>,
                 VoidType))

\* chains of at most MaxNest unary operators over the fragment input
DerivOps == {"EOpDPdy", "EOpDPdyFine", "EOpDPdyCoarse", "EOpDPdx"}
DerivChains == UNION { [1..n -> DerivOps] : n \in 0..MaxNest }

RECURSIVE Chain(_, _)
Chain(ops, x) ==
    IF ops = <<>> THEN x ELSE Un(Head(ops), Chain(Tail(ops), x), ElementType(vUV))

\* The fragment stage: the uniforms and samplers of the list (vertex inputs
\* are not fragment inputs), its own stage input vUV, and a derivative chain.
FragmentStage(l, ops) ==
    LET fl == SelectSeq(l, LAMBDA d : ~isInputDecl(d)) \o <<vUV>>
    IN Stage(Agg("EOpSequence",
                 << Agg("EOpFunction",
                        [i \in 1..Len(fl) |-> UseOf(fl, i)]
                          \o << Bin("EOpAssign", S(tmp),
                                    Bin("EOpAdd", Chain(ops, S(vUV)), S(tmp), tmp.type),
                                    tmp.type) >>,
                        VoidType),
                    Agg("EOpLinkerObjects", [i \in 1..Len(fl) |-> S(fl[i])], VoidType) >>,
                 VoidType))

Program(l, ops) == [EShLangVertex |-> VertexStage(l), EShLangFragment |-> FragmentStage(l, ops)]

\* Linker lists outside the families: a vertex input whose name is already a
\* bgfx attribute name, next to the input that is renamed to it, and a vertex
\* input that has the name of the fragment stage's input.
SpecialLists ==
    { <<aPosition, aRaw>>, <<aRaw, aUv2>>, <<vUV, aPosition>>, <<aSplat, aUv2, aRaw>> }

\* the programs a compilation may start from
Programs ==
    { Program(l, <<"EOpDPdy">>) : l \in LinkerLists \cup SpecialLists }
        \cup { Program(<<uA>>, ops) : ops \in DerivChains }
        \cup { [Program(l, <<"EOpDPdy">>) EXCEPT !.EShLangVertex = TernaryStage(l)] : l \in TernaryLists }
        \cup { [Program(<<uArr, uArr2>>, <<"EOpDPdy">>) EXCEPT
                   !.EShLangVertex = ArrayComparisonStage(onLeft)] : onLeft \in BOOLEAN }

\* The k-th vertex input of a wide vertex stage.
WideDecl(k) == Decl(WideNames[k], VectorType("EbtFloat", 4, "EvqVaryingIn"), 20 + k)

\* The programs whose vertex stage declares MaxInputs - 2 to MaxInputs inputs.
WidePrograms ==
    { Program([k \in 1..n |-> WideDecl(k)], <<"EOpDPdy">>) : n \in (MaxInputs - 2)..MaxInputs }

\* A stage whose linker-object section is not the last child of the root: it
\* is missing, it comes before the function, or a statement follows it.
MalformedKinds == {"missing", "misplaced", "followed"}

MalformedStage(l, kind) ==
    LET function == Agg("EOpFunction", [i \in 1..Len(l) |-> UseOf(l, i)], VoidType)
        linker == Agg("EOpLinkerObjects", [i \in 1..Len(l) |-> S(l[i])], VoidType)
        statement == Bin("EOpAssign", S(tmp), S(tmp), tmp.type)
    IN Stage(Agg("EOpSequence",
                 CASE kind = "missing" -> <<function>>
                   [] kind = "misplaced" -> <<linker, function>>
                   [] OTHER -> <<function, linker, statement>>,
                 VoidType))

MalformedLists == { <<uA>>, <<uTex>>, <<uB, uTex>>, <<aSplat, uA>> }

\* programs with one malformed stage
MalformedPrograms ==
    UNION { UNION { { [Program(l, <<"EOpDPdy">>) EXCEPT ![stage] = MalformedStage(l, kind)] :
                        stage \in {"EShLangVertex", "EShLangFragment"} } :
                    kind \in MalformedKinds } : l \in MalformedLists }

\* ------------------------------------------------------------ the state
VARIABLES
    program,      \* TProgram: stage -> [nodes, root, freed]
    pre,          \* the program as it was when the last pass started
    history,      \* the passes run so far, in order
    ids,          \* IdGenerator: the next identifier it hands out
    err,          \* "none", or the exception that ended the compilation
    apiOpenGL,    \* the build's value of (__APPLE__ | APIOpenGL)
    ndebug,       \* whether the build defines NDEBUG (assert compiled out)
    replacementToOriginalName,  \* the name table the vertex input pass fills
    pc,           \* ShaderCompiler::Compile: where it stands; "none" outside it
    cutScope,     \* the allocation scope ChangeUniformTypes returns to Compile
    trace         \* the steps of Compile so far, in order

vars ==
    <<program, pre, history, ids, err, apiOpenGL, ndebug, replacementToOriginalName,
      pc, cutScope, trace>>

Stages == {"EShLangVertex", "EShLangFragment"}

\* IdGenerator hands out identifiers no parsed symbol carries.
FirstGeneratedId == 100

\* ----------------------------------------------------- tree primitives
\* RemoveAllTreeNodes: every node of the subtree under n
RECURSIVE Subtree(_, _)
Subtree(nodes, n) ==
    IF n = Null THEN {}
    ELSE {n} \cup UNION { Subtree(nodes, nodes[n].kids[i]) : i \in DOMAIN nodes[n].kids }

\* Babylon's helper: the element at path[1] is the linker-object aggregate
isLinkerObject(nodes, path) ==
    /\ Len(path) > 1
    /\ nodes[path[2]].kind = "Aggregate"
    /\ nodes[path[2]].op = "EOpLinkerObjects"

\* TIntermTraverser::getParentNode
getParentNode(path) == IF path = <<>> THEN Null ELSE path[Len(path)]

\* Variant of Lookup over a map that has no entry; C24 fails of it.
LookupNothing(map, name) == Null

\* std::map::operator[] on the by-value copy: an absent key reads as nullptr
Lookup(map, name) == IF name \in DOMAIN map THEN map[name] ELSE Null

\* Variant of ReplaceInBinary that leaves a right child alone; C1 fails of it.
ReplaceInBinaryLeftOnly(st, symbol, parent, replacement) ==
    LET p == st.nodes[parent]
    IN IF p.kids[1] = symbol
       THEN [st EXCEPT !.freed = @ \cup Subtree(st.nodes, p.kids[1]),
                       !.nodes[parent].kids[1] = replacement]
       ELSE st

\* The body of makeReplacements' loop for a binary parent (lines 50-62).
ReplaceInBinary(st, symbol, parent, replacement) ==
    LET p == st.nodes[parent]
    IN IF p.kids[1] = symbol
       THEN [st EXCEPT !.freed = @ \cup Subtree(st.nodes, p.kids[1]),
                       !.nodes[parent].kids[1] = replacement]
       ELSE [st EXCEPT !.freed = @ \cup Subtree(st.nodes, p.kids[2]),
                       !.nodes[parent].kids[2] = replacement]

\* The body of makeReplacements' loop for an aggregate parent (lines 38-49).
ReplaceInAggregate(st, symbol, parent, replacement) ==
    LET p == st.nodes[parent]
    IN [st EXCEPT
          !.freed = IF \E idx \in DOMAIN p.kids : p.kids[idx] = symbol
                    THEN @ \cup Subtree(st.nodes, symbol) ELSE @,
          !.nodes[parent].kids =
              [idx \in DOMAIN p.kids |-> IF p.kids[idx] = symbol THEN replacement ELSE p.kids[idx]]]

\* Variant of Replace that skips a parent it has no handler for; C14 fails of
\* it.
ReplaceSkipping(st, symbol, parent, replacement) ==
    LET p == st.nodes[parent]
    IN CASE p.kind = "Aggregate" -> ReplaceInAggregate(st, symbol, parent, replacement)
         [] p.kind = "Binary" -> ReplaceInBinary(st, symbol, parent, replacement)
         [] p.kind = "Unary" ->
              [st EXCEPT !.freed = @ \cup Subtree(st.nodes, p.kids[1]),
                         !.nodes[parent].kids[1] = replacement]
         [] OTHER -> st

\* One iteration of makeReplacements' loop (lines 37-71).
Replace(st, symbol, parent, replacement) ==
    LET p == st.nodes[parent]
    IN CASE p.kind = "Aggregate" -> ReplaceInAggregate(st, symbol, parent, replacement)
         [] p.kind = "Binary" -> ReplaceInBinary(st, symbol, parent, replacement)
         [] p.kind = "Unary" ->
              [st EXCEPT !.freed = @ \cup Subtree(st.nodes, p.kids[1]),
                         !.nodes[parent].kids[1] = replacement]
         [] OTHER -> [st EXCEPT !.err = "UnsupportedReplacementTarget"]

\* makeReplacements: the records in order; a throw ends the loop.
RECURSIVE makeReplacements(_, _, _)
makeReplacements(st, nameToReplacement, symbolToParent) ==
    IF symbolToParent = <<>> \/ st.err # "none" THEN st
    ELSE LET symbol == Head(symbolToParent)[1]
             parent == Head(symbolToParent)[2]
             replacement == Lookup(nameToReplacement, st.nodes[symbol].name)
         IN makeReplacements(Replace(st, symbol, parent, replacement),
                             nameToReplacement, Tail(symbolToParent))

\* intermediate->addConstantUnion / addBinaryNode / growAggregate: a new node
\* at the end of the arena
NewNode(st, node) == [st EXCEPT !.nodes = Append(@, node)]
LastNode(st) == Len(st.nodes)

\* intermediate->addSymbol(TIntermSymbol{ids.Next(), name, type})
addSymbol(st, name, type) ==
    [st EXCEPT !.nodes = Append(@, SymbolNode(st.ids, name, type)), !.ids = @ + 1]

\* The traverser state of one pass over one stage.
Traverser(tree, nextId, pass) ==
    [nodes |-> tree.nodes, root |-> tree.root, freed |-> tree.freed, ids |-> nextId,
     err |-> "none", pass |-> pass, nameToSymbol |-> <<>>, symbolsToParents |-> <<>>,
     publicType |-> ZeroPublicType, genericAttributesRunningCount |-> 0]

TreeOf(st) == [nodes |-> st.nodes, root |-> st.root, freed |-> st.freed]

\* ------------------------------------------------------------ visitors
\* NonSamplerUniformToStructTraverser::visitSymbol
NonSamplerUniformToStruct_visitSymbol(st, symbol, path) ==
    LET type == st.nodes[symbol].type
    IN IF isUniformOrBuffer(type.qualifier) /\ type.basicType # "EbtSampler"
       THEN IF isLinkerObject(st.nodes, path)
            THEN [st EXCEPT !.nameToSymbol = (st.nodes[symbol].name :> symbol) @@ @]
            ELSE [st EXCEPT !.symbolsToParents = Append(@, <<symbol, getParentNode(path)>>)]
       ELSE st

\* intermediate->addShapeConversion(type, node), a function of glslang: a
\* conversion node over `node` whose result has the given type
addShapeConversion(st, type, node) ==
    NewNode(st, AggregateNode("ShapeConversion", <<node>>, type))

\* Variant of injectShapeConversion that injects under a binary only; C3 fails
\* of it.
injectShapeConversionBinaryOnly(st, node, parent, shapeConversion) ==
    LET p == st.nodes[parent]
    IN CASE p.kind = "Aggregate" -> st
         [] p.kind = "Binary" ->
              IF p.kids[1] = node THEN [st EXCEPT !.nodes[parent].kids[1] = shapeConversion]
              ELSE [st EXCEPT !.nodes[parent].kids[2] = shapeConversion]
         [] p.kind = "Unary" -> st
         [] OTHER -> [st EXCEPT !.err = "UnsupportedReplacementTarget"]

\* The lambda injectShapeConversion (lines 321-352).
injectShapeConversion(st, node, parent, shapeConversion) ==
    LET p == st.nodes[parent]
    IN CASE p.kind = "Aggregate" ->
              [st EXCEPT !.nodes[parent].kids =
                  [idx \in DOMAIN p.kids |-> IF p.kids[idx] = node THEN shapeConversion ELSE p.kids[idx]]]
         [] p.kind = "Binary" ->
              IF p.kids[1] = node THEN [st EXCEPT !.nodes[parent].kids[1] = shapeConversion]
              ELSE [st EXCEPT !.nodes[parent].kids[2] = shapeConversion]
         [] p.kind = "Unary" -> [st EXCEPT !.nodes[parent].kids[1] = shapeConversion]
         [] OTHER -> [st EXCEPT !.err = "UnsupportedReplacementTarget"]

\* Variant of PromotedType that leaves the array sizes out; C18 fails of it.
PromotedTypeUnsized(type) ==
    TypeOf(setVector([ZeroPublicType EXCEPT !.qualifier = type.qualifier,
                                            !.basicType = "EbtFloat"], 4))

\* The type UniformTypeChangeTraverser gives a symbol (lines 299-316).
PromotedType(type) ==
    TypeOf([setVector([ZeroPublicType EXCEPT !.qualifier = type.qualifier,
                                            !.basicType = "EbtFloat"], 4)
              EXCEPT !.arraySizes = type.arraySizes])

\* Variant of PromoteArrayUse that converts between the array and the index
\* operation; C4 fails of it.
PromoteArrayUseBelowIndex(st, symbol, path, newType) ==
    LET parent == getParentNode(path)
        oldType == st.nodes[symbol].type
        converted == addShapeConversion(st, [oldType EXCEPT !.arraySizes = <<>>], symbol)
    IN IF st.nodes[parent].kind = "Binary"
       THEN injectShapeConversion(converted, symbol, parent, LastNode(converted))
       ELSE [st EXCEPT !.err = "ArrayIndexingUnimplemented"]

\* The array case of UniformTypeChangeTraverser::visitSymbol (lines 379-395).
PromoteArrayUse(st, symbol, path, newType) ==
    LET parent == getParentNode(path)
    IN IF st.nodes[parent].kind = "Binary"
       THEN LET oldType == st.nodes[parent].type
                binType == [newType EXCEPT !.arraySizes = <<>>]
                retyped == [st EXCEPT !.nodes[parent].type = binType]
                converted == addShapeConversion(retyped, oldType, parent)
                grandparent == path[Len(path) - 1]
            IN injectShapeConversion(converted, parent, grandparent, LastNode(converted))
       ELSE [st EXCEPT !.err = "ArrayIndexingUnimplemented"]

\* UniformTypeChangeTraverser::visitSymbol
UniformTypeChange_visitSymbol(st, symbol, path) ==
    LET type == st.nodes[symbol].type
    IN IF isUniformOrBuffer(type.qualifier) /\ type.basicType # "EbtSampler" /\ ~isMatrix(type)
       THEN LET oldType == type
                newType == PromotedType(type)
                retyped == [st EXCEPT !.nodes[symbol].type = newType]
            IN IF isLinkerObject(st.nodes, path) THEN retyped
               ELSE IF isArray(newType) THEN PromoteArrayUse(retyped, symbol, path, newType)
               ELSE LET converted == addShapeConversion(retyped, oldType, symbol)
                    IN injectShapeConversion(converted, symbol, getParentNode(path),
                                             LastNode(converted))
       ELSE st

\* VertexVaryingInTraverser::visitSymbol
VertexVaryingIn_visitSymbol(st, symbol, path) ==
    IF st.nodes[symbol].type.qualifier.storage = "EvqVaryingIn"
    THEN LET cached == IF isLinkerObject(st.nodes, path)
                       THEN [st EXCEPT !.nameToSymbol = (st.nodes[symbol].name :> symbol) @@ @]
                       ELSE st
         IN [cached EXCEPT !.symbolsToParents = Append(@, <<symbol, getParentNode(path)>>)]
    ELSE st

\* SamplerSplitterTraverser::visitSymbol
SamplerSplitter_visitSymbol(st, symbol, path) ==
    LET type == st.nodes[symbol].type
    IN IF type.qualifier.storage = "EvqUniform" /\ type.basicType = "EbtSampler"
       THEN IF isLinkerObject(st.nodes, path)
            THEN [st EXCEPT !.nameToSymbol = (st.nodes[symbol].name :> symbol) @@ @]
            ELSE [st EXCEPT !.symbolsToParents = Append(@, <<symbol, getParentNode(path)>>)]
       ELSE st

\* TIntermTraverser::visitSymbol, as each traverser overrides it
visitSymbol(st, symbol, path) ==
    CASE st.pass = "NonSamplerUniformToStruct" -> NonSamplerUniformToStruct_visitSymbol(st, symbol, path)
      [] st.pass = "UniformTypeChange" -> UniformTypeChange_visitSymbol(st, symbol, path)
      [] st.pass = "VertexVaryingIn" -> VertexVaryingIn_visitSymbol(st, symbol, path)
      [] st.pass = "SamplerSplitter" -> SamplerSplitter_visitSymbol(st, symbol, path)
      [] OTHER -> st

YDerivatives == {"EOpDPdy", "EOpDPdyFine", "EOpDPdyCoarse"}

\* InvertYDerivativeOperandsTraverser::visitUnary at EvPreVisit: the traverser
\* state and the value returned (whether the operand is visited)
InvertYDerivativeOperands_visitUnary(st, unary, path) ==
    IF st.nodes[unary].op \in YDerivatives
    THEN LET negated == NewNode(st, UnaryNode("EOpNegative", st.nodes[unary].kids[1],
                                              VectorType("EbtFloat", 1, "EvqTemporary")))
         IN [st |-> [negated EXCEPT !.nodes[unary].kids[1] = LastNode(negated)], visit |-> FALSE]
    ELSE [st |-> st, visit |-> TRUE]

\* TIntermTraverser::visitUnary, which only the derivative traverser overrides
visitUnary(st, unary, path) ==
    IF st.pass = "InvertYDerivativeOperands"
    THEN InvertYDerivativeOperands_visitUnary(st, unary, path)
    ELSE [st |-> st, visit |-> TRUE]

\* TIntermNode::traverse with a pre-order traverser: children are read from
\* the live tree one at a time, each after the previous one has been visited.
RECURSIVE traverse(_, _, _), traverseChildren(_, _, _, _)
traverse(st, n, path) ==
    IF n = Null \/ st.err # "none" THEN st
    ELSE CASE st.nodes[n].kind = "Symbol" -> visitSymbol(st, n, path)
           [] st.nodes[n].kind = "Constant" -> st
           [] st.nodes[n].kind = "Unary" ->
                LET v == visitUnary(st, n, path)
                IN IF v.visit THEN traverseChildren(v.st, n, 1, Append(path, n)) ELSE v.st
           [] OTHER -> traverseChildren(st, n, 1, Append(path, n))
traverseChildren(st, n, i, path) ==
    IF i > Len(st.nodes[n].kids) THEN st
    ELSE traverseChildren(traverse(st, st.nodes[n].kids[i], path), n, i + 1, path)

\* ----------------------------------------------- Uniform Struct Packer
\* The qualifier of the struct's members (lines 143-148).
MemberQualifier ==
    [ClearedQualifier EXCEPT !.storage = "EvqUniform", !.precision = "EpqHigh",
                             !.layoutMatrix = "ElmColumnMajor", !.layoutPacking = "ElpStd140"]

\* The qualifier of the struct itself (lines 192-197).
StructQualifier ==
    [ClearedQualifier EXCEPT !.storage = "EvqUniform", !.layoutMatrix = "ElmColumnMajor",
                             !.layoutPacking = "ElpStd140", !.layoutBinding = 0]

\* One turn of the member loop (lines 157-188): the public type after the
\* turn and the member type it yields for `name`.
MemberOf(publicType, name, type) ==
    LET shaped == IF isMatrix(type) THEN setMatrix(publicType, type.matrixCols, type.matrixRows)
                  ELSE IF isVector(type) THEN setVector(publicType, type.vectorSize)
                  ELSE setVector(publicType, 1)
        sized == [shaped EXCEPT !.arraySizes = type.arraySizes]
    IN [publicType |-> sized,
        type |-> [TypeOf(sized) EXCEPT !.fieldName = name, !.basicType = type.basicType]]

\* Variant of MemberOrder that takes the names in the order the traversal
\* met their linker-object entries; C6 as amended fails of it.
MemberOrderByNode(nameToSymbol) ==
    LET RECURSIVE ByNode(_)
        ByNode(keys) ==
            IF keys = {} THEN <<>>
            ELSE LET first == CHOOSE k \in keys :
                                 \A o \in keys \ {k} : nameToSymbol[k] < nameToSymbol[o]
                 IN <<first>> \o ByNode(keys \ {first})
    IN ByNode(DOMAIN nameToSymbol)

\* The member loop over m_uniformNameToSymbol, a std::map: in key order.
MemberOrder(nameToSymbol) == SortedKeys(DOMAIN nameToSymbol)

RECURSIVE StructMembers(_, _, _, _)
StructMembers(names, nameToSymbol, nodes, publicType) ==
    IF names = <<>> THEN <<>>
    ELSE LET m == MemberOf(publicType, Head(names), nodes[nameToSymbol[Head(names)]].type)
         IN <<m.type>> \o StructMembers(Tail(names), nameToSymbol, nodes, m.publicType)

\* TType structType(structMembers, "Frame", qualifier)
StructType(structMembers) ==
    [basicType |-> "EbtBlock", vectorSize |-> 1, matrixCols |-> 0, matrixRows |-> 0,
     arraySizes |-> <<>>, qualifier |-> StructQualifier, sampler |-> NoSampler,
     fieldName |-> "", typeName |-> "Frame", structure |-> structMembers]

\* Variant of MemberIndex that counts from 1; C5 fails of it.
MemberIndexShifted(idx) == idx

\* The loop variable of lines 212-221 for member idx of the model's sequence,
\* which counts from 1 where the std::vector counts from 0.
MemberIndex(idx) == idx - 1

\* The loop that makes the index expressions (lines 212-221): the traverser
\* state and the map from member name to its index expression.

RECURSIVE StructIndexings(_, _, _, _, _)
StructIndexings(st, structSymbol, structMembers, idx, originalNameToReplacement) ==
    IF idx > Len(structMembers) THEN [st |-> st, map |-> originalNameToReplacement]
    ELSE LET memberType == structMembers[idx]
             right == NewNode(st, ConstantNode(MemberIndex(idx), VectorType("EbtUint", 1, "EvqConst")))
             binary == NewNode(right, BinaryNode("EOpIndexDirectStruct", structSymbol,
                                                 LastNode(right), memberType))
         IN StructIndexings(binary, structSymbol, structMembers, idx + 1,
                            (memberType.fieldName :> LastNode(binary)) @@ originalNameToReplacement)

\* Variant of EraseLinkerObjects that erases the first entry at most; C2 fails
\* of it.
EraseLinkerObjectsAtFront(st, linker, idx, nameToSymbol) ==
    IF idx < 1 \/ st.nodes[st.nodes[linker].kids[1]].kind # "Symbol"
               \/ st.nodes[st.nodes[linker].kids[1]].name \notin DOMAIN nameToSymbol
    THEN st
    ELSE [st EXCEPT !.freed = @ \cup Subtree(st.nodes, st.nodes[linker].kids[1]),
                    !.nodes[linker].kids = Tail(@)]

\* The backwards loop over the linker objects (lines 232-244): entry idx is
\* erased and released when it is a symbol whose name is a key of the map.
RECURSIVE EraseLinkerObjects(_, _, _, _)
EraseLinkerObjects(st, linker, idx, nameToSymbol) ==
    IF idx < 1 THEN st
    ELSE LET sequence == st.nodes[linker].kids
             entry == sequence[idx]
             found == /\ st.nodes[entry].kind = "Symbol"
                      /\ st.nodes[entry].name \in DOMAIN nameToSymbol
             erased == [st EXCEPT !.freed = @ \cup Subtree(st.nodes, entry),
                                  !.nodes[linker].kids =
                                      SubSeq(sequence, 1, idx - 1) \o SubSeq(sequence, idx + 1, Len(sequence))]
         IN EraseLinkerObjects(IF found THEN erased ELSE st, linker, idx - 1, nameToSymbol)

\* getTreeRoot()->getAsAggregate()->getSequence().back()->getAsAggregate()
LinkerObjectAggregate(st) ==
    LET rootKids == st.nodes[st.root].kids
    IN IF rootKids = <<>> THEN Null
       ELSE IF st.nodes[rootKids[Len(rootKids)]].kind = "Aggregate" THEN rootKids[Len(rootKids)]
       ELSE Null

\* What reading linkerObjectAggregate ends in (lines 229-231, 677-679): a
\* null pointer is dereferenced; the assert on the operator aborts a build
\* without NDEBUG and is no code in a build with it.
AssertLinkerObjects(st, linker) ==
    IF linker = Null THEN "NullDereference"
    ELSE IF ~ndebug /\ st.nodes[linker].op # "EOpLinkerObjects" THEN "AssertionFailed"
    ELSE "none"

\* Variant of InsertStruct that appends; C7 fails of it.
InsertStructAtEnd(st, linker, structSymbol) ==
    [st EXCEPT !.nodes[linker].kids = Append(@, structSymbol)]

\* sequence.insert(sequence.begin(), structSymbol)
InsertStruct(st, linker, structSymbol) ==
    [st EXCEPT !.nodes[linker].kids = <<structSymbol>> \o @]

\* The linker object surgery and the replacements (lines 229-249).
NonSamplerUniformToStruct_Replace(st, originalNameToReplacement, structSymbol, linker, nameToSymbol, symbolsToParents) ==
    IF AssertLinkerObjects(st, linker) # "none"
    THEN [st EXCEPT !.err = AssertLinkerObjects(st, linker)]
    ELSE makeReplacements(
             InsertStruct(EraseLinkerObjects(st, linker, Len(st.nodes[linker].kids), nameToSymbol),
                          linker, structSymbol),
             originalNameToReplacement, symbolsToParents)

\* NonSamplerUniformToStructTraverser::Traverse after the traversal (lines
\* 138-249): the struct, its index expressions, the linker objects and the
\* replacements, given the traverser that has collected the symbols.
NonSamplerUniformToStruct_Rewrite(traverser) ==
    LET names == MemberOrder(traverser.nameToSymbol)
        structMembers == StructMembers(names, traverser.nameToSymbol, traverser.nodes,
                                       [ZeroPublicType EXCEPT !.qualifier = MemberQualifier])
        withStruct == addSymbol(traverser, "anon@0", StructType(structMembers))
        structSymbol == Len(traverser.nodes) + 1
        indexed == StructIndexings(withStruct, structSymbol, structMembers, 1, <<>>)
    IN NonSamplerUniformToStruct_Replace(indexed.st, indexed.map, structSymbol,
                                         LinkerObjectAggregate(traverser),
                                         traverser.nameToSymbol, traverser.symbolsToParents)

\* NonSamplerUniformToStructTraverser::Traverse(intermediate, ids, scope)
NonSamplerUniformToStruct_Traverse(tree, nextId) ==
    NonSamplerUniformToStruct_Rewrite(
        traverse(Traverser(tree, nextId, "NonSamplerUniformToStruct"), tree.root, <<>>))

\* ---------------------------------------------- Uniform Vector Promoter
\* UniformTypeChangeTraverser::Traverse(intermediate, ids, scope)
UniformTypeChange_Traverse(tree, nextId) ==
    traverse(Traverser(tree, nextId, "UniformTypeChange"), tree.root, <<>>)

\* ---------------------------------------------- Vertex Attribute Binder
\* the table copied from bgfx's renderer_gl.cpp
s_attribName ==
    << "a_position", "a_normal", "a_tangent", "a_bitangent", "a_color0", "a_color1",
       "a_color2", "a_color3", "a_indices", "a_weight", "a_texcoord0", "a_texcoord1",
       "a_texcoord2", "a_texcoord3", "a_texcoord4", "a_texcoord5", "a_texcoord6",
       "a_texcoord7" >>

FIRST_GENERIC_ATTRIBUTE_LOCATION == 10

\* IF_NAME_RETURN_ATTRIB: the bgfx::Attrib value and the new name of a known name
KnownAttributes ==
    ("position" :> <<0, "a_position">>) @@ ("normal" :> <<1, "a_normal">>) @@
    ("tangent" :> <<2, "a_tangent">>) @@ ("uv" :> <<10, "a_texcoord0">>) @@
    ("uv2" :> <<11, "a_texcoord1">>) @@ ("uv3" :> <<12, "a_texcoord2">>) @@
    ("uv4" :> <<13, "a_texcoord3">>) @@ ("color" :> <<4, "a_color0">>) @@
    ("matricesIndices" :> <<8, "a_indices">>) @@ ("matricesWeights" :> <<9, "a_weight">>)

\* GetVaryingLocationAndNewNameForName: location, new name and the running
\* count after the call.  Past the end of s_attribName the read is out of
\* bounds and the name is whatever lies there.
GetVaryingLocationAndNewNameForName(openGL, count, name) ==
    IF openGL
    THEN [location |-> count,
          newName |-> IF count < Len(s_attribName) THEN s_attribName[count + 1] ELSE "<out of bounds>",
          count |-> count + 1]
    ELSE IF name \in DOMAIN KnownAttributes
         THEN [location |-> KnownAttributes[name][1], newName |-> KnownAttributes[name][2],
               count |-> count]
         ELSE [location |-> FIRST_GENERIC_ATTRIBUTE_LOCATION + count, newName |-> name,
               count |-> count + 1]

\* name.size() >= 2 && name[0] == 'u' && name[1] == 'v'
IsUvName(name) ==
    LET c == CharCodes[name] IN Len(c) >= 2 /\ c[1] = 117 /\ c[2] = 118

\* The loop that makes the new symbols (lines 535-559), one turn per key of
\* m_varyingNameToSymbol in key order.  publicType and the running count live
\* across the turns.
RECURSIVE NewVaryings(_, _, _, _, _)
NewVaryings(st, names, openGL, originalNameToReplacement, remap) ==
    IF names = <<>> THEN [st |-> st, map |-> originalNameToReplacement, remap |-> remap]
    ELSE LET name == Head(names)
             type == st.nodes[st.nameToSymbol[name]].type
             got == GetVaryingLocationAndNewNameForName(openGL, st.genericAttributesRunningCount, name)
             qualified == [st.publicType EXCEPT
                             !.qualifier = [type.qualifier EXCEPT !.layoutLocation = got.location]]
             shaped == IF isMatrix(type) THEN setMatrix(qualified, type.matrixCols, type.matrixRows)
                       ELSE IF isVector(type) THEN setVector(qualified, type.vectorSize)
                       ELSE qualified
             newType == [TypeOf(shaped) EXCEPT !.basicType = type.basicType]
             added == [addSymbol(st, got.newName, newType) EXCEPT
                         !.publicType = shaped,
                         !.genericAttributesRunningCount = got.count]
         IN NewVaryings(added, Tail(names), openGL,
                        (name :> LastNode(added)) @@ originalNameToReplacement,
                        (got.newName :> name) @@ remap)

\* Variant of VaryingOrder that takes the names in the order the traversal met
\* their linker-object entries; C11 as amended fails of it.
VaryingOrderByNode(nameToSymbol) == MemberOrderByNode(nameToSymbol)

\* The loop over m_varyingNameToSymbol, a std::map (line 535): in key order.
VaryingOrder(nameToSymbol) == SortedKeys(DOMAIN nameToSymbol)

\* Variant of CountUvs that counts nothing; C21 as amended fails of it.
CountUvsNone(traverser, openGL) == traverser

\* The pre-count of the uv names (lines 520-531), compiled out when openGL.
CountUvs(traverser, openGL) ==
    IF openGL THEN traverser
    ELSE [traverser EXCEPT !.genericAttributesRunningCount =
              Cardinality({ name \in DOMAIN traverser.nameToSymbol : IsUvName(name) })]

\* The replacements (line 561) with what the loop has made.
VertexVaryingIn_Replace(made, symbolsToParents) ==
    [st |-> makeReplacements(made.st, made.map, symbolsToParents), remap |-> made.remap]

\* VertexVaryingInTraverser::Traverse after the traversal (lines 512-561).
VertexVaryingIn_Rewrite(traverser, openGL, remap) ==
    VertexVaryingIn_Replace(
        NewVaryings(CountUvs(traverser, openGL), VaryingOrder(traverser.nameToSymbol),
                    openGL, <<>>, remap),
        traverser.symbolsToParents)

\* VertexVaryingInTraverser::Traverse(intermediate, ids, replacementToOriginalName)
VertexVaryingIn_Traverse(tree, nextId, openGL, remap) ==
    VertexVaryingIn_Rewrite(traverse(Traverser(tree, nextId, "VertexVaryingIn"), tree.root, <<>>),
                            openGL, remap)

\* Variant of VertexVaryingIn_Program that goes on to the fragment stage; C20
\* fails of it.
VertexVaryingIn_ProgramBothStages(prog, nextId, openGL, remap) ==
    LET vertex == VertexVaryingIn_Traverse(prog.EShLangVertex, nextId, openGL, remap)
        fragment == VertexVaryingIn_Traverse(prog.EShLangFragment, vertex.st.ids, openGL,
                                             vertex.remap)
    IN [program |-> [EShLangVertex |-> TreeOf(vertex.st),
                     EShLangFragment |-> TreeOf(fragment.st)],
        ids |-> fragment.st.ids, err |-> fragment.st.err, remap |-> fragment.remap]

\* VertexVaryingInTraverser::Traverse(program, ids, replacementToOriginalName)
\* (lines 424-427): the vertex stage's intermediate and no other.
VertexVaryingIn_Program(prog, nextId, openGL, remap) ==
    LET vertex == VertexVaryingIn_Traverse(prog.EShLangVertex, nextId, openGL, remap)
    IN [program |-> [prog EXCEPT !.EShLangVertex = TreeOf(vertex.st)],
        ids |-> vertex.st.ids, err |-> vertex.st.err, remap |-> vertex.remap]

\* s_attribName[m_genericAttributesRunningCount++] with the count past the
\* table's end (line 490) is undefined: the read faults, or it yields whatever
\* lies behind the table and the pass goes on with that as the new name.
ReadPastTable(done) == "<out of bounds>" \in DOMAIN done.remap

VertexVaryingIn_Outcomes(done) ==
    IF ReadPastTable(done) THEN {done, [done EXCEPT !.err = "AccessViolation"]} ELSE {done}

\* ------------------------------------------------------ Sampler Splitter
\* The three types made for one sampler (lines 625-669).
TextureType(type, layoutBinding) ==
    TypeOf([ZeroPublicType EXCEPT
              !.basicType = type.basicType,
              !.qualifier = [type.qualifier EXCEPT !.precision = "EpqHigh",
                                                   !.layoutBinding = layoutBinding],
              !.sampler = [type.sampler EXCEPT !.combined = FALSE]])

PureSamplerType(type, layoutBinding) ==
    TypeOf([ZeroPublicType EXCEPT
              !.basicType = type.basicType,
              !.qualifier = [type.qualifier EXCEPT !.precision = "EpqHigh",
                                                   !.layoutBinding = layoutBinding],
              !.sampler = [NoSampler EXCEPT !.sampler = TRUE]])

ConstructedType(type) ==
    TypeOf([ZeroPublicType EXCEPT
              !.basicType = type.basicType,
              !.qualifier = [ClearedQualifier EXCEPT !.storage = "EvqTemporary"],
              !.sampler = [type.sampler EXCEPT !.combined = TRUE]])

\* Variant of NextBinding that never moves on; C8 as amended fails of it.
NextBindingStuck(layoutBinding) == layoutBinding

\* ++layoutBinding
NextBinding(layoutBinding) == layoutBinding + 1

\* The loop that makes the replacers (lines 616-674), one turn per key of
\* m_samplerNameToSymbol in key order.

RECURSIVE NewSamplers(_, _, _, _, _)
NewSamplers(st, names, layoutBinding, nameToReplacement, nameToNewTextureAndSampler) ==
    IF names = <<>>
    THEN [st |-> st, map |-> nameToReplacement, pairs |-> nameToNewTextureAndSampler]
    ELSE LET name == Head(names)
             type == st.nodes[st.nameToSymbol[name]].type
             newTexture == Len(st.nodes) + 1
             newSampler == Len(st.nodes) + 2
             aggregate == Len(st.nodes) + 3
         IN NewSamplers(
                NewNode(addSymbol(addSymbol(st, name \o "Texture", TextureType(type, layoutBinding)),
                                  name, PureSamplerType(type, layoutBinding)),
                        AggregateNode("EOpConstructTextureSampler", <<newTexture, newSampler>>,
                                      ConstructedType(type))),
                Tail(names), NextBinding(layoutBinding),
                (name :> aggregate) @@ nameToReplacement,
                (name :> <<newTexture, newSampler>>) @@ nameToNewTextureAndSampler)

\* Variant of SplitEntry that puts the sampler before the texture; C9 fails of
\* it.
SplitEntrySamplerFirst(sequence, idx, pair) ==
    SubSeq(sequence, 1, idx - 1) \o <<pair[2], pair[1]>> \o SubSeq(sequence, idx + 1, Len(sequence))

\* The linker object replacement at one found entry (lines 695-697).
SplitEntry(sequence, idx, pair) ==
    SubSeq(sequence, 1, idx - 1) \o <<pair[1], pair[2]>> \o SubSeq(sequence, idx + 1, Len(sequence))

\* The backwards loop over the linker objects (lines 680-700).
RECURSIVE SplitLinkerObjects(_, _, _, _)
SplitLinkerObjects(st, linker, idx, nameToNewTextureAndSampler) ==
    IF idx < 1 THEN st
    ELSE LET sequence == st.nodes[linker].kids
             entry == sequence[idx]
             found == /\ st.nodes[entry].kind = "Symbol"
                      /\ st.nodes[entry].name \in DOMAIN nameToNewTextureAndSampler
             split == [st EXCEPT
                         !.freed = @ \cup Subtree(st.nodes, entry),
                         !.nodes[linker].kids =
                             SplitEntry(sequence, idx, nameToNewTextureAndSampler[st.nodes[entry].name])]
         IN SplitLinkerObjects(IF found THEN split ELSE st, linker, idx - 1,
                               nameToNewTextureAndSampler)

\* The linker object replacements and the replacements (lines 677-702).
SamplerSplitter_Replace(st, nameToReplacement, nameToNewTextureAndSampler, linker, symbolsToParents) ==
    IF AssertLinkerObjects(st, linker) # "none"
    THEN [st EXCEPT !.err = AssertLinkerObjects(st, linker)]
    ELSE makeReplacements(
             SplitLinkerObjects(st, linker, Len(st.nodes[linker].kids), nameToNewTextureAndSampler),
             nameToReplacement, symbolsToParents)

\* SamplerSplitterTraverser::Traverse after the replacers are made
SamplerSplitter_Made(made, linker, symbolsToParents) ==
    SamplerSplitter_Replace(made.st, made.map, made.pairs, linker, symbolsToParents)

\* SamplerSplitterTraverser::Traverse after the traversal (lines 609-702).
SamplerSplitter_Rewrite(traverser) ==
    SamplerSplitter_Made(
        NewSamplers(traverser, SortedKeys(DOMAIN traverser.nameToSymbol), 0, <<>>, <<>>),
        LinkerObjectAggregate(traverser), traverser.symbolsToParents)

\* SamplerSplitterTraverser::Traverse(intermediate, ids)
SamplerSplitter_Traverse(tree, nextId) ==
    SamplerSplitter_Rewrite(traverse(Traverser(tree, nextId, "SamplerSplitter"), tree.root, <<>>))

\* ------------------------------------------------ Derivative Sign Inverter
\* InvertYDerivativeOperandsTraverser::Traverse(program), on its one stage
InvertYDerivativeOperands_Traverse(tree, nextId) ==
    traverse(Traverser(tree, nextId, "InvertYDerivativeOperands"), tree.root, <<>>)

\* ----------------------------------------------------------- the passes
\* A driver calls each pass at most once and in this order.
PassOrder ==
    << "MoveNonSamplerUniformsIntoStruct", "ChangeUniformTypes",
       "AssignLocationsAndNamesToVertexVaryings", "SplitSamplersIntoSamplersAndTextures",
       "InvertYDerivativeOperands" >>

PassIndex(pass) == CHOOSE i \in DOMAIN PassOrder : PassOrder[i] = pass

CanRun(pass) ==
    /\ err = "none"
    /\ Len(history) < MaxPasses
    /\ \A i \in DOMAIN history : PassIndex(history[i]) < PassIndex(pass)

\* A traverser's static Traverse(program, ids) over both stages: the vertex
\* stage first; an exception there leaves the fragment stage untouched.
Recorded(pass) ==
    /\ pre' = program
    /\ history' = Append(history, pass)
    /\ UNCHANGED <<apiOpenGL, ndebug>>

\* a pass called outside ShaderCompiler::Compile
Started(pass) ==
    /\ Recorded(pass)
    /\ UNCHANGED <<pc, cutScope, trace>>

BothStages(vertex, fragment) ==
    /\ program' = [EShLangVertex |-> TreeOf(vertex),
                   EShLangFragment |-> IF vertex.err = "none" THEN TreeOf(fragment)
                                       ELSE program.EShLangFragment]
    /\ ids' = IF vertex.err = "none" THEN fragment.ids ELSE vertex.ids
    /\ err' = IF vertex.err = "none" THEN fragment.err ELSE vertex.err

MoveNonSamplerUniformsIntoStruct ==
    /\ CanRun("MoveNonSamplerUniformsIntoStruct")
    /\ LET vertex == NonSamplerUniformToStruct_Traverse(program.EShLangVertex, ids)
           fragment == NonSamplerUniformToStruct_Traverse(program.EShLangFragment, vertex.ids)
       IN BothStages(vertex, fragment)
    /\ Started("MoveNonSamplerUniformsIntoStruct")
    /\ UNCHANGED replacementToOriginalName

ChangeUniformTypes ==
    /\ CanRun("ChangeUniformTypes")
    /\ LET vertex == UniformTypeChange_Traverse(program.EShLangVertex, ids)
           fragment == UniformTypeChange_Traverse(program.EShLangFragment, vertex.ids)
       IN BothStages(vertex, fragment)
    /\ Started("ChangeUniformTypes")
    /\ UNCHANGED replacementToOriginalName

AssignLocationsAndNamesToVertexVaryings ==
    /\ CanRun("AssignLocationsAndNamesToVertexVaryings")
    /\ \E done \in VertexVaryingIn_Outcomes(
                      VertexVaryingIn_Program(program, ids, apiOpenGL, replacementToOriginalName)) :
          /\ program' = done.program
          /\ ids' = done.ids
          /\ err' = done.err
          /\ replacementToOriginalName' = done.remap
    /\ Started("AssignLocationsAndNamesToVertexVaryings")

SplitSamplersIntoSamplersAndTextures ==
    /\ CanRun("SplitSamplersIntoSamplersAndTextures")
    /\ LET vertex == SamplerSplitter_Traverse(program.EShLangVertex, ids)
           fragment == SamplerSplitter_Traverse(program.EShLangFragment, vertex.ids)
       IN BothStages(vertex, fragment)
    /\ Started("SplitSamplersIntoSamplersAndTextures")
    /\ UNCHANGED replacementToOriginalName

InvertYDerivativeOperands ==
    /\ CanRun("InvertYDerivativeOperands")
    /\ LET done == InvertYDerivativeOperands_Traverse(program.EShLangFragment, ids)
       IN /\ program' = [program EXCEPT !.EShLangFragment = TreeOf(done)]
          /\ ids' = done.ids
          /\ err' = done.err
    /\ Started("InvertYDerivativeOperands")
    /\ UNCHANGED replacementToOriginalName

Init ==
    /\ program \in Programs
    /\ pre = program
    /\ history = <<>>
    /\ ids = FirstGeneratedId
    /\ err = "none"
    /\ apiOpenGL \in BOOLEAN
    /\ ndebug \in BOOLEAN
    /\ replacementToOriginalName = <<>>
    /\ pc = "none"
    /\ cutScope = "none"
    /\ trace = <<>>

Next ==
    \/ MoveNonSamplerUniformsIntoStruct
    \/ ChangeUniformTypes
    \/ AssignLocationsAndNamesToVertexVaryings
    \/ SplitSamplersIntoSamplersAndTextures
    \/ InvertYDerivativeOperands

Spec == Init /\ [][Next]_vars

\* The passes over a program whose vertex stage is wide.
WideInit ==
    /\ program \in WidePrograms
    /\ pre = program
    /\ history = <<>>
    /\ ids = FirstGeneratedId
    /\ err = "none"
    /\ apiOpenGL \in BOOLEAN
    /\ ndebug \in BOOLEAN
    /\ replacementToOriginalName = <<>>
    /\ pc = "none"
    /\ cutScope = "none"
    /\ trace = <<>>

WideSpec == WideInit /\ [][Next]_vars

\* The passes over a program one of whose stages has a malformed linker
\* section.
MalformedInit ==
    /\ program \in MalformedPrograms
    /\ pre = program
    /\ history = <<>>
    /\ ids = FirstGeneratedId
    /\ err = "none"
    /\ apiOpenGL \in BOOLEAN
    /\ ndebug \in BOOLEAN
    /\ replacementToOriginalName = <<>>
    /\ pc = "none"
    /\ cutScope = "none"
    /\ trace = <<>>

MalformedSpec == MalformedInit /\ [][Next]_vars

\* ------------------------------------------------ ShaderCompiler::Compile
\* Variant of HoldScope for a call whose result is not kept: the temporary
\* is destroyed at the end of the statement; C19 fails of it.
DiscardScope(scope) == "released"

\* auto cutScope = ChangeUniformTypes(program, ids) (line 109): the local owns
\* the scope until Compile is left.
HoldScope(scope) == scope

\* Leaving Compile, by return or by an exception: the local cutScope is
\* destroyed and releases the scope it owns.
Unwound(scope) == IF scope = "held" THEN "released" ELSE scope

\* the steps taken, with the release of the scope when this step releases it
Logged(steps) ==
    trace' = trace \o steps
                 \o (IF cutScope' = "released" /\ cutScope # "released"
                     THEN <<"ScopeReleased">> ELSE <<>>)

\* A step of Compile that is made by code outside the passes and either
\* returns or throws.
External(from, to, step, exception) ==
    /\ pc = from
    /\ \E ok \in BOOLEAN :
          /\ pc' = IF ok THEN to ELSE "thrown"
          /\ err' = IF ok THEN err ELSE exception
          /\ cutScope' = IF ok THEN cutScope ELSE Unwound(cutScope)
    /\ Logged(<<step>>)
    /\ UNCHANGED <<program, pre, history, ids, apiOpenGL, ndebug, replacementToOriginalName>>

\* AddShader(program, vertexShader, vertexSource) (lines 92-93, 23-34)
AddVertexShader == External("start", "vertexAdded", "ParseVertex", "ParseError")

\* AddShader(program, fragmentShader, fragmentSource) (lines 95-96)
AddFragmentShader == External("vertexAdded", "fragmentAdded", "ParseFragment", "ParseError")

\* program.link(EShMsgDefault) (lines 103-106)
Link == External("fragmentAdded", "linked", "Link", "LinkError")

\* auto cutScope = ChangeUniformTypes(program, ids) (line 109).  The scope is
\* made by new before the traversals (line 263) and handed to a unique_ptr
\* after them (line 266): an exception in between leaves it unowned.
CompileChangeUniformTypes ==
    /\ pc = "linked"
    /\ LET vertex == UniformTypeChange_Traverse(program.EShLangVertex, ids)
           fragment == UniformTypeChange_Traverse(program.EShLangFragment, vertex.ids)
       IN BothStages(vertex, fragment)
    /\ Recorded("ChangeUniformTypes")
    /\ pc' = IF err' = "none" THEN "typesChanged" ELSE "thrown"
    /\ cutScope' = IF err' = "none" THEN HoldScope("held") ELSE "leaked"
    /\ Logged(<<"ChangeUniformTypes">>)
    /\ UNCHANGED replacementToOriginalName

\* AssignLocationsAndNamesToVertexVaryings(program, ids, replacementNameToOriginal)
\* (line 111)
CompileAssignLocations ==
    /\ pc = "typesChanged"
    /\ \E done \in VertexVaryingIn_Outcomes(
                      VertexVaryingIn_Program(program, ids, apiOpenGL, replacementToOriginalName)) :
          /\ program' = done.program
          /\ ids' = done.ids
          /\ err' = done.err
          /\ replacementToOriginalName' = done.remap
    /\ Recorded("AssignLocationsAndNamesToVertexVaryings")
    /\ pc' = IF err' = "none" THEN "locationsAssigned" ELSE "thrown"
    /\ cutScope' = IF err' = "none" THEN cutScope ELSE Unwound(cutScope)
    /\ Logged(<<"AssignLocationsAndNamesToVertexVaryings">>)

\* CompileShader(program, EShLangVertex, vertexGLSL) (line 114, 36-56)
CompileVertexShader == External("locationsAssigned", "vertexCompiled", "CodegenVertex", "CodegenError")

\* CompileShader(program, EShLangFragment, fragmentGLSL) (line 117)
CompileFragmentShader == External("vertexCompiled", "fragmentCompiled", "CodegenFragment", "CodegenError")

\* return CreateBgfxShader(...) (lines 119-122): the locals are destroyed
Return ==
    /\ pc = "fragmentCompiled"
    /\ pc' = "returned"
    /\ cutScope' = Unwound(cutScope)
    /\ Logged(<<>>)
    /\ UNCHANGED <<program, pre, history, ids, err, apiOpenGL, ndebug, replacementToOriginalName>>

\* Compile is called with sources that parse and link to `program`, when
\* they do; this file is the OpenGL build's.
CompileInit ==
    /\ program \in Programs
    /\ pre = program
    /\ history = <<>>
    /\ ids = FirstGeneratedId
    /\ err = "none"
    /\ apiOpenGL = TRUE
    /\ ndebug \in BOOLEAN
    /\ replacementToOriginalName = <<>>
    /\ pc = "start"
    /\ cutScope = "none"
    /\ trace = <<>>

CompileNext ==
    \/ AddVertexShader
    \/ AddFragmentShader
    \/ Link
    \/ CompileChangeUniformTypes
    \/ CompileAssignLocations
    \/ CompileVertexShader
    \/ CompileFragmentShader
    \/ Return

CompileSpec == CompileInit /\ [][CompileNext]_vars

\* ------------------------------------------------------------ observers
\* The pass that ran last, when it ended without an exception.
Ran(pass) == err = "none" /\ history # <<>> /\ history[Len(history)] = pass

\* The stages a pass rewrites.
StagesOf(pass) ==
    CASE pass = "AssignLocationsAndNamesToVertexVaryings" -> {"EShLangVertex"}
      [] pass = "InvertYDerivativeOperands" -> {"EShLangFragment"}
      [] OTHER -> Stages

\* The nodes of a tree, and its slots: <<n, i>> is the i-th child of node n.
Reachable(tree) == Subtree(tree.nodes, tree.root)
Slots(tree) ==
    UNION { { <<n, i>> : i \in DOMAIN tree.nodes[n].kids } : n \in Reachable(tree) }
Held(tree, slot) == tree.nodes[slot[1]].kids[slot[2]]

\* The linker-object section and its entries; a use site is any other slot.
LinkerEntries(tree) == tree.nodes[LinkerObjectAggregate(tree)].kids
UseSlots(tree) == { slot \in Slots(tree) : slot[1] # LinkerObjectAggregate(tree) }

\* The symbols each rewriting pass eliminates.
IsCandidate(pass, type) ==
    CASE pass = "MoveNonSamplerUniformsIntoStruct" ->
             isUniformOrBuffer(type.qualifier) /\ type.basicType # "EbtSampler"
      [] pass = "AssignLocationsAndNamesToVertexVaryings" ->
             type.qualifier.storage = "EvqVaryingIn"
      [] pass = "SplitSamplersIntoSamplersAndTextures" ->
             type.qualifier.storage = "EvqUniform" /\ type.basicType = "EbtSampler"
      [] OTHER -> FALSE

HoldsCandidate(pass, tree, slot) ==
    /\ tree.nodes[Held(tree, slot)].kind = "Symbol"
    /\ IsCandidate(pass, tree.nodes[Held(tree, slot)].type)

\* the slots of a tree that hold a candidate of the pass, and the candidates
CandidateSlots(pass, tree) == { slot \in Slots(tree) : HoldsCandidate(pass, tree, slot) }
Candidates(pass, tree) == { Held(tree, slot) : slot \in CandidateSlots(pass, tree) }

\* a node the pass has made
IsNew(before, n) == n > Len(before.nodes)

\* The node a pass puts where a candidate called `name` was.
IsReplacement(pass, before, after, name, n) ==
    /\ n # Null
    /\ IsNew(before, n)
    /\ CASE pass = "MoveNonSamplerUniformsIntoStruct" ->
               /\ after.nodes[n].kind = "Binary"
               /\ after.nodes[n].op = "EOpIndexDirectStruct"
               /\ after.nodes[n].type.fieldName = name
         [] pass = "AssignLocationsAndNamesToVertexVaryings" ->
               /\ after.nodes[n].kind = "Symbol"
               /\ after.nodes[n].type.qualifier.layoutLocation # Unset
               /\ \E i \in DOMAIN LinkerEntries(before) :
                     /\ before.nodes[LinkerEntries(before)[i]].name = name
                     /\ LinkerEntries(after)[i] = n
         [] OTHER ->
               /\ after.nodes[n].kind = "Aggregate"
               /\ after.nodes[n].op = "EOpConstructTextureSampler"
               /\ after.nodes[after.nodes[n].kids[2]].name = name

\* The slots whose candidate a pass replaces in place: every use site, and
\* for the vertex input pass the linker-object entries as well.
ReplacedSlots(pass, tree) ==
    IF pass = "AssignLocationsAndNamesToVertexVaryings" THEN CandidateSlots(pass, tree)
    ELSE CandidateSlots(pass, tree) \cap UseSlots(tree)

RewritingPasses ==
    { "MoveNonSamplerUniformsIntoStruct", "AssignLocationsAndNamesToVertexVaryings",
      "SplitSamplersIntoSamplersAndTextures" }

\* ---------------------------------------------------------------- claims
UseSitesComplete(pass, before, after) ==
    /\ \A slot \in Slots(after) : Held(after, slot) \notin Candidates(pass, before)
    /\ \A slot \in ReplacedSlots(pass, before) :
          /\ slot \in Slots(after)
          /\ IsReplacement(pass, before, after, before.nodes[Held(before, slot)].name,
                           Held(after, slot))

\* C1: after the struct packer, the vertex input pass or the sampler splitter
\* has finished on a stage, no slot of the stage's tree holds a symbol node
\* the pass classified as a candidate, and every slot that held one at a use
\* site holds the pass's replacement node.
C1_UseSiteCompleteness ==
    \A pass \in RewritingPasses :
        Ran(pass) =>
            \A stage \in StagesOf(pass) : UseSitesComplete(pass, pre[stage], program[stage])

\* a candidate sat in the right slot of a binary, in an aggregate and under a unary
C1_Witness ==
    /\ Ran("MoveNonSamplerUniformsIntoStruct")
    /\ \E slot \in ReplacedSlots("MoveNonSamplerUniformsIntoStruct", pre.EShLangFragment) :
          pre.EShLangFragment.nodes[slot[1]].kind = "Binary" /\ slot[2] = 2
    /\ \E slot \in ReplacedSlots("MoveNonSamplerUniformsIntoStruct", pre.EShLangFragment) :
          pre.EShLangFragment.nodes[slot[1]].kind = "Unary"
    /\ \E slot \in ReplacedSlots("MoveNonSamplerUniformsIntoStruct", pre.EShLangFragment) :
          pre.EShLangFragment.nodes[slot[1]].kind = "Aggregate"

\* The externally visible symbols: uniforms, buffers, stage inputs and outputs.
IsExternal(type) ==
    type.qualifier.storage \in {"EvqUniform", "EvqBuffer", "EvqVaryingIn", "EvqVaryingOut"}

\* every external symbol of the tree has exactly one linker-object entry
LinkerInvariant(tree) ==
    \A n \in Reachable(tree) :
        (tree.nodes[n].kind = "Symbol" /\ IsExternal(tree.nodes[n].type)) =>
            Cardinality({ i \in DOMAIN LinkerEntries(tree) :
                            tree.nodes[LinkerEntries(tree)[i]].id = tree.nodes[n].id }) = 1

\* no linker-object entry is a symbol the last pass eliminated
NoEliminatedEntry(pass, before, after) ==
    \A i \in DOMAIN LinkerEntries(after) :
        \A c \in Candidates(pass, before) :
            after.nodes[LinkerEntries(after)[i]].id # before.nodes[c].id

\* C2: the parsed trees list every external symbol exactly once in the linker
\* objects, and so does the tree after any pass; after a rewriting pass no
\* linker-object entry is a symbol the pass eliminated.
C2_LinkerInvariantPreserved ==
    err = "none" =>
        /\ \A stage \in Stages : LinkerInvariant(program[stage])
        /\ \A pass \in RewritingPasses :
              Ran(pass) =>
                  \A stage \in StagesOf(pass) :
                      NoEliminatedEntry(pass, pre[stage], program[stage])

\* two passes have run, the second one split a sampler that is used
C2_Witness ==
    /\ Ran("SplitSamplersIntoSamplersAndTextures")
    /\ Len(history) = 2
    /\ ReplacedSlots("SplitSamplersIntoSamplersAndTextures", pre.EShLangVertex) # {}
    /\ Len(LinkerEntries(program.EShLangVertex)) > Len(LinkerEntries(pre.EShLangVertex))

\* The candidates of the vector promoter.
IsPromoted(type) ==
    isUniformOrBuffer(type.qualifier) /\ type.basicType # "EbtSampler" /\ ~isMatrix(type)

IsShapeConversion(tree, n, operand, type) ==
    /\ n # Null
    /\ tree.nodes[n].kind = "Aggregate"
    /\ tree.nodes[n].op = "ShapeConversion"
    /\ tree.nodes[n].kids = <<operand>>
    /\ tree.nodes[n].type = type

\* the use sites of the promoter's candidates, arrays or not
PromotedUseSlots(tree, array) ==
    { slot \in UseSlots(tree) :
        /\ tree.nodes[Held(tree, slot)].kind = "Symbol"
        /\ IsPromoted(tree.nodes[Held(tree, slot)].type)
        /\ isArray(tree.nodes[Held(tree, slot)].type) = array }

ShapeRoundTrip(before, after) ==
    \A slot \in PromotedUseSlots(before, FALSE) :
        /\ after.nodes[Held(before, slot)].kind = "Symbol"
        /\ after.nodes[Held(before, slot)].type.basicType = "EbtFloat"
        /\ after.nodes[Held(before, slot)].type.vectorSize = 4
        /\ IsShapeConversion(after, Held(after, slot), Held(before, slot),
                             before.nodes[Held(before, slot)].type)

\* C3: after the vector promoter has run on a parsed program, at every use
\* site of a uniform that is no sampler, no matrix and no array, the symbol is
\* a float vector of width 4 and the slot of its parent that held it holds a
\* shape conversion whose operand is the symbol and whose type is the
\* symbol's type from before the pass.
C3_ShapeConversionRoundTrip ==
    (err = "none" /\ history = <<"ChangeUniformTypes">>) =>
        \A stage \in Stages : ShapeRoundTrip(pre[stage], program[stage])

\* a scalar and a two-wide uniform were used under a binary, a unary and a call
C3_Witness ==
    /\ err = "none" /\ history = <<"ChangeUniformTypes">>
    /\ \E slot \in PromotedUseSlots(pre.EShLangVertex, FALSE) :
          /\ pre.EShLangVertex.nodes[Held(pre.EShLangVertex, slot)].type.vectorSize = 1
          /\ pre.EShLangVertex.nodes[slot[1]].kind = "Binary"
    /\ \E slot \in PromotedUseSlots(pre.EShLangVertex, FALSE) :
          /\ pre.EShLangVertex.nodes[Held(pre.EShLangVertex, slot)].type.vectorSize = 2
          /\ pre.EShLangVertex.nodes[slot[1]].kind \in {"Unary", "Aggregate"}

\* the slots that hold the index operation over the array symbol of `slot`
SlotsHolding(tree, n) == { slot \in Slots(tree) : Held(tree, slot) = n }

ArrayIndexingPromoted(before, after) ==
    \A slot \in PromotedUseSlots(before, TRUE) :
        (before.nodes[slot[1]].kind = "Binary" /\ before.nodes[slot[1]].op = "EOpIndexDirect") =>
            /\ Held(after, slot) = Held(before, slot)
            /\ after.nodes[slot[1]].type.basicType = "EbtFloat"
            /\ after.nodes[slot[1]].type.vectorSize = 4
            /\ after.nodes[slot[1]].type.matrixCols = 0
            /\ ~isArray(after.nodes[slot[1]].type)
            /\ \A above \in SlotsHolding(before, slot[1]) :
                  IsShapeConversion(after, Held(after, above), slot[1],
                                    before.nodes[slot[1]].type)

\* C4: after the vector promoter has run on a parsed program, at every use
\* site of a promoted array uniform under a binary index operation, the array
\* symbol is still the child of the index operation, the index operation is
\* typed as a float vector of width 4 with no array sizes, and the slot of the
\* grandparent that held the index operation holds a shape conversion whose
\* operand is the index operation and whose type is the index operation's
\* type from before the pass.
C4_ArrayIndexing ==
    (err = "none" /\ history = <<"ChangeUniformTypes">>) =>
        \A stage \in Stages : ArrayIndexingPromoted(pre[stage], program[stage])

\* an indexed array uniform was an argument of a call
C4_Witness ==
    /\ err = "none" /\ history = <<"ChangeUniformTypes">>
    /\ \E slot \in PromotedUseSlots(pre.EShLangVertex, TRUE) :
          /\ pre.EShLangVertex.nodes[slot[1]].op = "EOpIndexDirect"
          /\ \E above \in SlotsHolding(pre.EShLangVertex, slot[1]) :
                pre.EShLangVertex.nodes[above[1]].kind = "Aggregate"

\* The synthetic struct symbol the packer has added to a tree.
StructSymbols(before, after) ==
    { n \in Reachable(after) :
        IsNew(before, n) /\ after.nodes[n].kind = "Symbol" /\ after.nodes[n].name = "anon@0" }

\* an index expression into struct symbol s for the field called `name`
IsFieldAccess(after, n, s, name) ==
    /\ n # Null
    /\ after.nodes[n].kind = "Binary"
    /\ after.nodes[n].op = "EOpIndexDirectStruct"
    /\ after.nodes[n].kids[1] = s
    /\ after.nodes[after.nodes[n].kids[2]].kind = "Constant"
    /\ \E i \in DOMAIN after.nodes[s].type.structure :
          /\ after.nodes[s].type.structure[i].fieldName = name
          /\ after.nodes[after.nodes[n].kids[2]].val = i - 1
          /\ after.nodes[n].type = after.nodes[s].type.structure[i]

FieldIndexStable(before, after) ==
    /\ Cardinality(StructSymbols(before, after)) = 1
    /\ \A s \in StructSymbols(before, after) :
          /\ Injective([i \in DOMAIN after.nodes[s].type.structure |->
                            after.nodes[s].type.structure[i].fieldName])
          /\ \A slot \in ReplacedSlots("MoveNonSamplerUniformsIntoStruct", before) :
                IsFieldAccess(after, Held(after, slot), s,
                              before.nodes[Held(before, slot)].name)

\* C5: after the struct packer, every use site of a packed uniform holds an
\* index-into-struct binary whose left is the one synthetic struct symbol,
\* whose right is the literal i and whose type is field i of the struct,
\* where i is the position (from 0) of the one field that carries the
\* uniform's name.
C5_FieldIndexStable ==
    Ran("MoveNonSamplerUniformsIntoStruct") =>
        \A stage \in Stages : FieldIndexStable(pre[stage], program[stage])

\* three uniforms were packed and the last field is read somewhere
C5_Witness ==
    /\ Ran("MoveNonSamplerUniformsIntoStruct")
    /\ \E s \in StructSymbols(pre.EShLangVertex, program.EShLangVertex) :
          /\ Len(program.EShLangVertex.nodes[s].type.structure) = 3
          /\ \E slot \in ReplacedSlots("MoveNonSamplerUniformsIntoStruct", pre.EShLangVertex) :
                LET access == program.EShLangVertex.nodes[Held(program.EShLangVertex, slot)]
                IN program.EShLangVertex.nodes[access.kids[2]].val = 2

\* The names of the linker-object entries the packer takes, in entry order.
PackedEntryNames(before) ==
    LET packed == SelectSeq(LinkerEntries(before),
                            LAMBDA e : /\ before.nodes[e].kind = "Symbol"
                                       /\ IsCandidate("MoveNonSamplerUniformsIntoStruct",
                                                      before.nodes[e].type))
    IN [i \in DOMAIN packed |-> before.nodes[packed[i]].name]

\* the names of a struct symbol's fields, in field order
FieldNames(after, s) ==
    [i \in DOMAIN after.nodes[s].type.structure |-> after.nodes[s].type.structure[i].fieldName]

Range(f) == { f[i] : i \in DOMAIN f }

\* C6, as amended: the fields of the synthetic struct are the packed uniforms
\* of the linker objects, one field each, in ascending byte-wise order of
\* their names, whatever the order of the linker-object entries.
C6_FieldOrderByName ==
    Ran("MoveNonSamplerUniformsIntoStruct") =>
        \A stage \in Stages :
            \A s \in StructSymbols(pre[stage], program[stage]) :
                /\ Range(FieldNames(program[stage], s)) = Range(PackedEntryNames(pre[stage]))
                /\ \A i, j \in DOMAIN FieldNames(program[stage], s) :
                      i < j => StrLess(FieldNames(program[stage], s)[i],
                                       FieldNames(program[stage], s)[j])

\* C6, as the claim states it: the fields of the synthetic struct are in the
\* order of the linker-object entries of the packed uniforms.
C6_FieldOrderByDiscovery ==
    Ran("MoveNonSamplerUniformsIntoStruct") =>
        \A stage \in Stages :
            \A s \in StructSymbols(pre[stage], program[stage]) :
                FieldNames(program[stage], s) = PackedEntryNames(pre[stage])

\* three uniforms were packed whose entries were not in the order of their names
C6_Witness ==
    /\ Ran("MoveNonSamplerUniformsIntoStruct")
    /\ Len(PackedEntryNames(pre.EShLangVertex)) = 3
    /\ StrLess(PackedEntryNames(pre.EShLangVertex)[2], PackedEntryNames(pre.EShLangVertex)[1])
    /\ \E s \in StructSymbols(pre.EShLangVertex, program.EShLangVertex) :
          FieldNames(program.EShLangVertex, s) # PackedEntryNames(pre.EShLangVertex)

\* The linker-object entries the packer leaves alone, in entry order.
UnpackedEntries(before) ==
    SelectSeq(LinkerEntries(before),
              LAMBDA e : ~(/\ before.nodes[e].kind = "Symbol"
                           /\ IsCandidate("MoveNonSamplerUniformsIntoStruct",
                                          before.nodes[e].type)))

LinkerObjectsPacked(before, after) ==
    /\ LinkerEntries(after) # <<>>
    /\ StructSymbols(before, after) = {LinkerEntries(after)[1]}
    /\ after.nodes[LinkerEntries(after)[1]].type.qualifier.storage = "EvqUniform"
    /\ after.nodes[LinkerEntries(after)[1]].type.qualifier.layoutMatrix = "ElmColumnMajor"
    /\ after.nodes[LinkerEntries(after)[1]].type.qualifier.layoutBinding = 0
    /\ \A i \in DOMAIN LinkerEntries(after) :
          i > 1 => after.nodes[LinkerEntries(after)[i]].name \notin Range(PackedEntryNames(before))
    /\ Tail(LinkerEntries(after)) = UnpackedEntries(before)
    /\ \A i \in DOMAIN UnpackedEntries(before) :
          after.nodes[UnpackedEntries(before)[i]] = before.nodes[UnpackedEntries(before)[i]]

\* C7: after the struct packer has run on a stage, the first linker-object
\* entry is the one synthetic struct symbol (uniform storage, column-major,
\* binding 0), no entry carries the name of a packed uniform, and the other
\* entries are the ones that were there, unchanged and in their order.
C7_PackerLinkerObjects ==
    Ran("MoveNonSamplerUniformsIntoStruct") =>
        \A stage \in Stages : LinkerObjectsPacked(pre[stage], program[stage])

\* a uniform was packed from between two entries the packer leaves alone
C7_Witness ==
    /\ Ran("MoveNonSamplerUniformsIntoStruct")
    /\ Len(UnpackedEntries(pre.EShLangVertex)) = 2
    /\ Len(LinkerEntries(pre.EShLangVertex)) = 3
    /\ LinkerEntries(pre.EShLangVertex)[2] \notin Range(UnpackedEntries(pre.EShLangVertex))

\* The texture and sampler symbols the splitter has put into the linker
\* objects: <<texture, sampler>> for every new pair of neighbours.
SplitPairs(before, after) ==
    { <<LinkerEntries(after)[k], LinkerEntries(after)[k + 1]>> :
        k \in { i \in 1..(Len(LinkerEntries(after)) - 1) :
                  /\ IsNew(before, LinkerEntries(after)[i])
                  /\ IsNew(before, LinkerEntries(after)[i + 1])
                  /\ after.nodes[LinkerEntries(after)[i]].name =
                        after.nodes[LinkerEntries(after)[i + 1]].name \o "Texture" } }

BindingOf(after, n) == after.nodes[n].type.qualifier.layoutBinding

PairsShareBinding(before, after) ==
    /\ \A pair \in SplitPairs(before, after) :
          /\ BindingOf(after, pair[1]) = BindingOf(after, pair[2])
          /\ BindingOf(after, pair[1]) >= 0
    /\ \A p, q \in SplitPairs(before, after) :
          p # q => BindingOf(after, p[1]) # BindingOf(after, q[1])
    /\ Cardinality(SplitPairs(before, after)) =
          Cardinality({ i \in DOMAIN LinkerEntries(before) :
                          HoldsCandidate("SplitSamplersIntoSamplersAndTextures", before,
                                         <<LinkerObjectAggregate(before), i>>) })

\* the type of the construct aggregate at every use site of a split sampler
ReconstructionTyped(before, after) ==
    \A slot \in ReplacedSlots("SplitSamplersIntoSamplersAndTextures", before) :
        /\ after.nodes[Held(after, slot)].op = "EOpConstructTextureSampler"
        /\ after.nodes[Held(after, slot)].type.basicType =
              before.nodes[Held(before, slot)].type.basicType
        /\ after.nodes[Held(after, slot)].type.sampler =
              before.nodes[Held(before, slot)].type.sampler
        /\ after.nodes[Held(after, slot)].type.qualifier = ClearedQualifier
        /\ ~isArray(after.nodes[Held(after, slot)].type)

ReconstructionTypeIsOriginal(before, after) ==
    \A slot \in ReplacedSlots("SplitSamplersIntoSamplersAndTextures", before) :
        after.nodes[Held(after, slot)].type = before.nodes[Held(before, slot)].type

\* C8, as amended: the texture and the sampler symbol made for one combined
\* sampler carry the same binding, the pairs of one stage carry different
\* bindings, and the construct aggregate has the original's basic type and
\* sampler descriptor, with a qualifier of its own: temporary storage, no
\* precision and a cleared layout.
C8_SplitterPairing ==
    Ran("SplitSamplersIntoSamplersAndTextures") =>
        \A stage \in Stages :
            /\ PairsShareBinding(pre[stage], program[stage])
            /\ ReconstructionTyped(pre[stage], program[stage])

\* C8, as the claim states it: shared and distinct bindings, and the type of
\* the construct aggregate equals the type of the original combined sampler.
C8_ReconstructionTypeEqual ==
    Ran("SplitSamplersIntoSamplersAndTextures") =>
        \A stage \in Stages :
            /\ PairsShareBinding(pre[stage], program[stage])
            /\ ReconstructionTypeIsOriginal(pre[stage], program[stage])

\* two combined samplers of one stage were split and both are used
C8_Witness ==
    /\ Ran("SplitSamplersIntoSamplersAndTextures")
    /\ Cardinality(SplitPairs(pre.EShLangVertex, program.EShLangVertex)) = 2
    /\ Cardinality({ pre.EShLangVertex.nodes[Held(pre.EShLangVertex, slot)].name :
                       slot \in ReplacedSlots("SplitSamplersIntoSamplersAndTextures",
                                              pre.EShLangVertex) }) = 2

\* The linker objects after the split, entry by entry: a sampler entry has
\* become a new texture symbol and a new sampler symbol, any other entry is
\* the node it was.
RECURSIVE EntriesSplit(_, _, _, _)
EntriesSplit(before, after, was, is) ==
    IF was = <<>> THEN is = <<>>
    ELSE IF /\ before.nodes[Head(was)].kind = "Symbol"
            /\ IsCandidate("SplitSamplersIntoSamplersAndTextures", before.nodes[Head(was)].type)
         THEN /\ Len(is) >= 2
              /\ IsNew(before, is[1]) /\ IsNew(before, is[2]) /\ is[1] # is[2]
              /\ after.nodes[is[1]].kind = "Symbol" /\ after.nodes[is[2]].kind = "Symbol"
              /\ after.nodes[is[1]].name = before.nodes[Head(was)].name \o "Texture"
              /\ after.nodes[is[2]].name = before.nodes[Head(was)].name
              /\ after.nodes[is[1]].type.sampler.combined = FALSE
              /\ after.nodes[is[2]].type.sampler.sampler = TRUE
              /\ EntriesSplit(before, after, Tail(was), Tail(Tail(is)))
         ELSE /\ is # <<>>
              /\ Head(is) = Head(was)
              /\ EntriesSplit(before, after, Tail(was), Tail(is))

UsesReconstructed(before, after) ==
    \A slot \in ReplacedSlots("SplitSamplersIntoSamplersAndTextures", before) :
        /\ after.nodes[Held(after, slot)].kind = "Aggregate"
        /\ after.nodes[Held(after, slot)].op = "EOpConstructTextureSampler"
        /\ <<after.nodes[Held(after, slot)].kids[1], after.nodes[Held(after, slot)].kids[2]>>
              \in SplitPairs(before, after)
        /\ Len(after.nodes[Held(after, slot)].kids) = 2
        /\ after.nodes[after.nodes[Held(after, slot)].kids[2]].name =
              before.nodes[Held(before, slot)].name

\* C9: after the sampler splitter, every sampler entry of the linker objects
\* has become the texture symbol (the name with "Texture" appended) followed
\* by the sampler symbol (the name), the other entries are where they were
\* relative to each other, and every use site of the sampler holds the
\* construct aggregate over that texture and that sampler.
C9_SplitterLinkerObjects ==
    Ran("SplitSamplersIntoSamplersAndTextures") =>
        \A stage \in Stages :
            /\ EntriesSplit(pre[stage], program[stage], LinkerEntries(pre[stage]),
                            LinkerEntries(program[stage]))
            /\ UsesReconstructed(pre[stage], program[stage])

\* a sampler entry between two other entries was split, and it is used
C9_Witness ==
    /\ Ran("SplitSamplersIntoSamplersAndTextures")
    /\ Len(LinkerEntries(pre.EShLangVertex)) = 3
    /\ HoldsCandidate("SplitSamplersIntoSamplersAndTextures", pre.EShLangVertex,
                      <<LinkerObjectAggregate(pre.EShLangVertex), 2>>)
    /\ Len(LinkerEntries(program.EShLangVertex)) = 4
    /\ ReplacedSlots("SplitSamplersIntoSamplersAndTextures", pre.EShLangVertex) # {}

\* The unary nodes of a tree that take a derivative along y.
YDerivativeNodes(tree) ==
    { n \in Reachable(tree) : tree.nodes[n].kind = "Unary" /\ tree.nodes[n].op \in YDerivatives }

IsNegation(before, after, n) ==
    IsNew(before, n) /\ after.nodes[n].kind = "Unary" /\ after.nodes[n].op = "EOpNegative"

\* C10, as the claim states it: after the derivative inverter, the operand of
\* every y derivative of the fragment tree, nested ones included, is one new
\* negation of the operand it had, and that operand is no new negation.
C10_InvertedExactlyOnce ==
    Ran("InvertYDerivativeOperands") =>
        \A n \in YDerivativeNodes(pre.EShLangFragment) :
            /\ IsNegation(pre.EShLangFragment, program.EShLangFragment,
                          program.EShLangFragment.nodes[n].kids[1])
            /\ program.EShLangFragment.nodes[program.EShLangFragment.nodes[n].kids[1]].kids
                  = pre.EShLangFragment.nodes[n].kids
            /\ ~IsNegation(pre.EShLangFragment, program.EShLangFragment,
                           pre.EShLangFragment.nodes[n].kids[1])

\* The names of the vertex-input entries of the linker objects, in entry order.
InputEntryNames(before) ==
    LET inputs == SelectSeq(LinkerEntries(before),
                            LAMBDA e : /\ before.nodes[e].kind = "Symbol"
                                       /\ IsCandidate("AssignLocationsAndNamesToVertexVaryings",
                                                      before.nodes[e].type))
    IN [i \in DOMAIN inputs |-> before.nodes[inputs[i]].name]

\* the new symbol the vertex input pass has put into the linker objects for
\* the input called `name`
NewInputs(before, after, name) ==
    { e \in Range(LinkerEntries(after)) :
        /\ IsNew(before, e)
        /\ after.nodes[e].name \in DOMAIN replacementToOriginalName
        /\ replacementToOriginalName[after.nodes[e].name] = name }

\* the input called `name` has got slot k and the k-th reserved name
HasSlotAndName(before, after, name, k) ==
    /\ NewInputs(before, after, name) # {}
    /\ \A e \in NewInputs(before, after, name) :
          /\ after.nodes[e].type.qualifier.layoutLocation = k
          /\ after.nodes[e].name = s_attribName[k + 1]

\* names in ascending byte-wise order
Ascending(names) == \A i, j \in DOMAIN names : i < j => StrLess(names[i], names[j])

\* the position (from 0) a name has among the given names in ascending order
Rank(names, name) == Cardinality({ other \in Range(names) : StrLess(other, name) })

InputEntryPositions(before) ==
    { i \in DOMAIN LinkerEntries(before) :
        HoldsCandidate("AssignLocationsAndNamesToVertexVaryings", before,
                       <<LinkerObjectAggregate(before), i>>) }

LocationOfEntry(after, i) == after.nodes[LinkerEntries(after)[i]].type.qualifier.layoutLocation

\* C12, as the claim states it: in either variant of the vertex input pass no
\* two vertex inputs of a stage are assigned the same binding slot.
C12_SlotsDistinct ==
    Ran("AssignLocationsAndNamesToVertexVaryings") =>
        \A i, j \in InputEntryPositions(pre.EShLangVertex) :
            i # j => LocationOfEntry(program.EShLangVertex, i)
                        # LocationOfEntry(program.EShLangVertex, j)

\* C13, as the claim states it: after the vertex input pass the name table maps
\* the target name of every vertex input to its original name, and distinct
\* vertex inputs have distinct target names.
C13_RemapRecoversNames ==
    Ran("AssignLocationsAndNamesToVertexVaryings") =>
        \A i \in InputEntryPositions(pre.EShLangVertex) :
            LET o == pre.EShLangVertex.nodes[LinkerEntries(pre.EShLangVertex)[i]].name
                t == program.EShLangVertex.nodes[LinkerEntries(program.EShLangVertex)[i]].name
            IN /\ t \in DOMAIN replacementToOriginalName
               /\ replacementToOriginalName[t] = o
               /\ \A j \in InputEntryPositions(pre.EShLangVertex) \ {i} :
                      program.EShLangVertex.nodes[LinkerEntries(program.EShLangVertex)[j]].name # t

\* The parents Replace is called with: the parent of every use site a
\* rewriting pass replaces; for the vector promoter the parent of every use of
\* a candidate that is no array, and the parent of the index operation over a
\* candidate that is one.
ReplaceTargets(pass, tree) ==
    IF pass = "ChangeUniformTypes"
    THEN { slot[1] : slot \in PromotedUseSlots(tree, FALSE) }
           \cup UNION { { above[1] : above \in SlotsHolding(tree, slot[1]) } :
                          slot \in { s \in PromotedUseSlots(tree, TRUE) :
                                       tree.nodes[s[1]].kind = "Binary" } }
    ELSE { slot[1] : slot \in ReplacedSlots(pass, tree) }

UnsupportedTargets(pass, tree) ==
    { n \in ReplaceTargets(pass, tree) : tree.nodes[n].kind \notin {"Aggregate", "Binary", "Unary"} }

LastPass == history[Len(history)]

\* C14: when the program a pass started on has, in a stage the pass rewrites,
\* a replacement target that is neither an aggregate, a binary nor a unary,
\* the pass has ended with UnsupportedReplacementTarget.
C14_UnsupportedTargetIsFatal ==
    \A pass \in RewritingPasses \cup {"ChangeUniformTypes"} :
        (history # <<>> /\ LastPass = pass) =>
            ((\E stage \in StagesOf(pass) : UnsupportedTargets(pass, pre[stage]) # {})
                => err = "UnsupportedReplacementTarget")

\* the vertex input pass, run second, met a vertex input under a conditional
\* expression
C14_Witness ==
    /\ Len(history) = 2
    /\ LastPass = "AssignLocationsAndNamesToVertexVaryings"
    /\ err = "UnsupportedReplacementTarget"
    /\ \E n \in UnsupportedTargets(LastPass, pre.EShLangVertex) :
          pre.EShLangVertex.nodes[n].kind = "Selection"

\* the vector promoter met the index operation over an array under a
\* conditional expression
C14_WitnessPromoter ==
    /\ history = <<"ChangeUniformTypes">>
    /\ err = "UnsupportedReplacementTarget"
    /\ \E slot \in PromotedUseSlots(pre.EShLangVertex, TRUE) :
          \E above \in SlotsHolding(pre.EShLangVertex, slot[1]) :
              pre.EShLangVertex.nodes[above[1]].kind = "Selection"

\* the root's last child is absent or is no linker-object aggregate
Malformed(tree) ==
    \/ LinkerObjectAggregate(tree) = Null
    \/ tree.nodes[LinkerObjectAggregate(tree)].op # "EOpLinkerObjects"

\* every node of the tree before has the children it had
NoEdit(before, after) ==
    \A n \in Reachable(before) : after.nodes[n].kids = before.nodes[n].kids

\* C15, as the claim states it: when the struct packer or the sampler splitter
\* is run on a program with a stage whose linker section is malformed, the pass
\* ends in an error and has edited no child of any node.
C15_MalformedIsFatal ==
    \A pass \in {"MoveNonSamplerUniformsIntoStruct", "SplitSamplersIntoSamplersAndTextures"} :
        (history # <<>> /\ LastPass = pass /\ \E stage \in Stages : Malformed(pre[stage])) =>
            /\ err # "none"
            /\ \A stage \in Stages : NoEdit(pre[stage], program[stage])

\* C15, in a build without NDEBUG: the pass ends in an error and has edited no
\* child of any node of the malformed stage.
C15_FatalWhenAsserting ==
    \A pass \in {"MoveNonSamplerUniformsIntoStruct", "SplitSamplersIntoSamplersAndTextures"} :
        (~ndebug /\ history # <<>> /\ LastPass = pass
            /\ \E stage \in Stages : Malformed(pre[stage])) =>
            /\ err # "none"
            /\ \A stage \in Stages :
                  Malformed(pre[stage]) => NoEdit(pre[stage], program[stage])

\* The child slots of binaries whose node a pass replaces: ReplaceTargets'
\* slots.
OldSlots(pass, tree) ==
    IF pass = "ChangeUniformTypes"
    THEN PromotedUseSlots(tree, FALSE)
           \cup UNION { SlotsHolding(tree, slot[1]) :
                          slot \in { s \in PromotedUseSlots(tree, TRUE) :
                                       tree.nodes[s[1]].kind = "Binary" } }
    ELSE ReplacedSlots(pass, tree)

BinaryUntouched(pass, before, after) ==
    \A slot \in Slots(before) \ OldSlots(pass, before) :
        before.nodes[slot[1]].kind = "Binary" => Held(after, slot) = Held(before, slot)

\* C16, as the claim states it: a pass that replaces nodes under binaries
\* leaves every child of a binary that is not a node it replaces as it was.
C16_BinaryUntouchedUnlessOld ==
    \A pass \in RewritingPasses \cup {"ChangeUniformTypes"} :
        Ran(pass) =>
            \A stage \in StagesOf(pass) : BinaryUntouched(pass, pre[stage], program[stage])

\* C16 of the batch replacement alone, where every recorded parent still holds
\* the recorded symbol.
C16_BatchReplacementUntouched ==
    \A pass \in RewritingPasses :
        Ran(pass) =>
            \A stage \in StagesOf(pass) : BinaryUntouched(pass, pre[stage], program[stage])

\* the struct symbols of a tree
BlockSymbols(tree) ==
    { n \in Reachable(tree) :
        tree.nodes[n].kind = "Symbol" /\ tree.nodes[n].type.basicType = "EbtBlock" }

MembersPromoted(type) ==
    \A i \in DOMAIN type.structure :
        ~isMatrix(type.structure[i]) =>
            type.structure[i].basicType = "EbtFloat" /\ type.structure[i].vectorSize = 4

\* C17, as the claim states it: when the vector promoter has run right after
\* the struct packer, the struct symbol the packer made is still of its struct
\* type, and the members of that type that are no matrices are float vectors
\* of width 4.
C17_StructKeptMembersPromoted ==
    (err = "none" /\ history = <<"MoveNonSamplerUniformsIntoStruct", "ChangeUniformTypes">>) =>
        \A stage \in Stages :
            \A n \in BlockSymbols(pre[stage]) :
                /\ program[stage].nodes[n].type.basicType = "EbtBlock"
                /\ MembersPromoted(program[stage].nodes[n].type)

\* the symbol nodes of a tree
SymbolNodes(tree) == { n \in Reachable(tree) : tree.nodes[n].kind = "Symbol" }

PromoterTargetType(before, after) ==
    /\ \A n \in SymbolNodes(before) :
          IF IsPromoted(before.nodes[n].type)
          THEN /\ after.nodes[n].type.basicType = "EbtFloat"
               /\ after.nodes[n].type.vectorSize = 4
               /\ after.nodes[n].type.matrixCols = 0
               /\ after.nodes[n].type.qualifier = before.nodes[n].type.qualifier
               /\ after.nodes[n].type.arraySizes = before.nodes[n].type.arraySizes
          ELSE after.nodes[n].type = before.nodes[n].type
    /\ LinkerEntries(after) = LinkerEntries(before)

\* C18: after the vector promoter, every symbol node of a uniform or buffer
\* that is no sampler and no matrix is a float vector of width 4 with the
\* qualifier and the array sizes it had, every other symbol node has the type
\* it had, and the linker objects hold the nodes they held, with no conversion
\* in between.
C18_PromoterTargetType ==
    Ran("ChangeUniformTypes") =>
        \A stage \in Stages : PromoterTargetType(pre[stage], program[stage])

\* the vertex stage declared a promoted array, a matrix and a sampler or a
\* narrower uniform
C18_Witness ==
    /\ Ran("ChangeUniformTypes")
    /\ \E i, j, k \in DOMAIN LinkerEntries(pre.EShLangVertex) :
          /\ isArray(pre.EShLangVertex.nodes[LinkerEntries(pre.EShLangVertex)[i]].type)
          /\ isMatrix(pre.EShLangVertex.nodes[LinkerEntries(pre.EShLangVertex)[j]].type)
          /\ pre.EShLangVertex.nodes[LinkerEntries(pre.EShLangVertex)[k]].type.vectorSize \in {1, 2}
          /\ program.EShLangVertex.nodes[LinkerEntries(pre.EShLangVertex)[k]].type.vectorSize = 4

\* the steps of Compile in the order of its statements
CompileOrder ==
    << "ParseVertex", "ParseFragment", "Link", "ChangeUniformTypes",
       "AssignLocationsAndNamesToVertexVaryings", "CodegenVertex", "CodegenFragment" >>

\* The trace is a prefix of the order; the release of the scope, if it has
\* happened, is its last element and comes after ChangeUniformTypes.
InCompileOrder ==
    \E k \in 0..Len(CompileOrder) :
        \/ trace = SubSeq(CompileOrder, 1, k)
        \/ k >= 4 /\ trace = Append(SubSeq(CompileOrder, 1, k), "ScopeReleased")

\* C19: in Compile the steps taken are, in order, parse vertex, parse
\* fragment, link, ChangeUniformTypes, AssignLocationsAndNamesToVertexVaryings,
\* code generation of the vertex stage, code generation of the fragment stage;
\* the scope is released after the last step taken and is held when a code
\* generation starts, a returned Compile has taken every step, a Compile that
\* is left holds no scope, and no pass has run after a parse or link error.
C19_ScopeOutlivesCodegen ==
    /\ InCompileOrder
    /\ pc = "returned" => trace = Append(CompileOrder, "ScopeReleased")
    /\ pc \in {"locationsAssigned", "vertexCompiled"} => cutScope = "held"
    /\ pc \in {"returned", "thrown"} => cutScope # "held"
    /\ err \in {"ParseError", "LinkError"} => history = <<>> /\ program = pre

\* Compile has returned after passes that changed the program
C19_Witness ==
    /\ pc = "returned"
    /\ cutScope = "released"
    /\ history = <<"ChangeUniformTypes", "AssignLocationsAndNamesToVertexVaryings">>
    /\ program.EShLangVertex # pre.EShLangVertex
    /\ trace[Len(trace)] = "ScopeReleased"

\* C20: the vertex input pass, however it ends, leaves the fragment stage as
\* it was: every node, the root and the linker objects.
C20_FragmentUnchanged ==
    (history # <<>> /\ LastPass = "AssignLocationsAndNamesToVertexVaryings") =>
        program.EShLangFragment = pre.EShLangFragment

\* the pass renamed a vertex input whose name and storage a symbol of the
\* fragment stage has too
C20_Witness ==
    /\ Ran("AssignLocationsAndNamesToVertexVaryings")
    /\ \E i \in InputEntryPositions(pre.EShLangVertex) :
          /\ program.EShLangVertex.nodes[LinkerEntries(program.EShLangVertex)[i]].name
                # pre.EShLangVertex.nodes[LinkerEntries(pre.EShLangVertex)[i]].name
          /\ \E n \in SymbolNodes(pre.EShLangFragment) :
                /\ pre.EShLangFragment.nodes[n].name
                      = pre.EShLangVertex.nodes[LinkerEntries(pre.EShLangVertex)[i]].name
                /\ pre.EShLangFragment.nodes[n].type.qualifier.storage = "EvqVaryingIn"

\* the names of the vertex inputs that the fixed table does not hold
UnmappedNames(before) ==
    { name \in Range(InputEntryNames(before)) : name \notin DOMAIN KnownAttributes }

\* Every vertex input that the fixed table holds has the table's slot and
\* name; the others keep their names and have the slots first, first + 1, ...
\* in ascending order of their names.
FixedTableSlots(before, after, first) ==
    \A i \in InputEntryPositions(before) :
        LET o == before.nodes[LinkerEntries(before)[i]].name
            new == after.nodes[LinkerEntries(after)[i]]
        IN IF o \in DOMAIN KnownAttributes
           THEN /\ new.type.qualifier.layoutLocation = KnownAttributes[o][1]
                /\ new.name = KnownAttributes[o][2]
           ELSE /\ new.type.qualifier.layoutLocation
                     = first + Cardinality({ other \in UnmappedNames(before) : StrLess(other, o) })
                /\ new.name = o

\* the number of vertex inputs whose names start with "uv"
UvNames(before) == Cardinality({ name \in Range(InputEntryNames(before)) : IsUvName(name) })

\* C21, as amended: in the fixed-table variant a vertex input of the table gets
\* the table's slot and name, and the inputs outside the table keep their
\* names and get the slots F + U, F + U + 1, ... in ascending order of their
\* names, where F is FIRST_GENERIC_ATTRIBUTE_LOCATION and U is the number of
\* vertex inputs of the stage whose names start with "uv".
C21_FallbackAfterUvCount ==
    (Ran("AssignLocationsAndNamesToVertexVaryings") /\ ~apiOpenGL) =>
        FixedTableSlots(pre.EShLangVertex, program.EShLangVertex,
                        FIRST_GENERIC_ATTRIBUTE_LOCATION + UvNames(pre.EShLangVertex))

\* C21, as the claim states it: the inputs outside the table get the slots
\* F, F + 1, ... whatever other inputs are present.
C21_FallbackFromFixedFirst ==
    (Ran("AssignLocationsAndNamesToVertexVaryings") /\ ~apiOpenGL) =>
        FixedTableSlots(pre.EShLangVertex, program.EShLangVertex,
                        FIRST_GENERIC_ATTRIBUTE_LOCATION)

\* two inputs outside the table were bound next to uv2: slots 11 and 12
C21_Witness ==
    /\ Ran("AssignLocationsAndNamesToVertexVaryings") /\ ~apiOpenGL
    /\ Cardinality(UnmappedNames(pre.EShLangVertex)) = 2
    /\ UvNames(pre.EShLangVertex) = 1
    /\ \E i \in InputEntryPositions(pre.EShLangVertex) :
          LocationOfEntry(program.EShLangVertex, i) = FIRST_GENERIC_ATTRIBUTE_LOCATION + 2

\* C22, as the claim states it: the symbol the vertex input pass makes for a
\* vertex input has the input's basic type, vector size and matrix dimensions.
C22_ShapePreserved ==
    Ran("AssignLocationsAndNamesToVertexVaryings") =>
        \A i \in InputEntryPositions(pre.EShLangVertex) :
            LET old == pre.EShLangVertex.nodes[LinkerEntries(pre.EShLangVertex)[i]].type
                new == program.EShLangVertex.nodes[LinkerEntries(program.EShLangVertex)[i]].type
            IN /\ new.basicType = old.basicType
               /\ new.vectorSize = old.vectorSize
               /\ new.matrixCols = old.matrixCols
               /\ new.matrixRows = old.matrixRows

\* C22 of the inputs that are vectors: they get their own vector size.
C22_VectorShapePreserved ==
    Ran("AssignLocationsAndNamesToVertexVaryings") =>
        \A i \in InputEntryPositions(pre.EShLangVertex) :
            LET old == pre.EShLangVertex.nodes[LinkerEntries(pre.EShLangVertex)[i]].type
                new == program.EShLangVertex.nodes[LinkerEntries(program.EShLangVertex)[i]].type
            IN isVector(old) =>
                  /\ new.basicType = old.basicType
                  /\ new.vectorSize = old.vectorSize
                  /\ new.matrixCols = 0

\* C23, as the claim states it: in the capacity-constrained variant every read
\* of s_attribName is inside the table, so that the pass does not fault and
\* every new name it records is one of the table's eighteen.
C23_ReadsInsideTable ==
    (history # <<>> /\ LastPass = "AssignLocationsAndNamesToVertexVaryings" /\ apiOpenGL) =>
        /\ err # "AccessViolation"
        /\ DOMAIN replacementToOriginalName \subseteq { s_attribName[k] : k \in DOMAIN s_attribName }

\* C23 of the vertex stages with no more inputs than the table has names.
C23_ReadsInsideTableWhenFew ==
    (/\ history # <<>> /\ LastPass = "AssignLocationsAndNamesToVertexVaryings" /\ apiOpenGL
     /\ Cardinality(InputEntryPositions(pre.EShLangVertex)) <= Len(s_attribName)) =>
        /\ err # "AccessViolation"
        /\ DOMAIN replacementToOriginalName \subseteq { s_attribName[k] : k \in DOMAIN s_attribName }

\* The linker-object sections of a tree, and the names of their symbols.
LinkerSections(tree) ==
    { n \in Range(tree.nodes[tree.root].kids) :
        tree.nodes[n].kind = "Aggregate" /\ tree.nodes[n].op = "EOpLinkerObjects" }

ListedNames(tree) ==
    { tree.nodes[e].name :
        e \in { k \in UNION { Range(tree.nodes[n].kids) : n \in LinkerSections(tree) } :
                  tree.nodes[k].kind = "Symbol" } }

\* The slots a pass records for the batch replacement: the candidates outside
\* the linker sections, and for the vertex input pass those inside as well.
RecordedSlots(pass, tree) ==
    { slot \in Slots(tree) :
        /\ Held(tree, slot) # Null
        /\ HoldsCandidate(pass, tree, slot)
        /\ pass = "AssignLocationsAndNamesToVertexVaryings" \/ slot[1] \notin LinkerSections(tree) }

\* Every candidate name at a use site of the tree is in its linker section.
UseSiteNamesListed(pass, tree) ==
    \A slot \in RecordedSlots(pass, tree) : tree.nodes[Held(tree, slot)].name \in ListedNames(tree)

\* C24: when the struct packer, the vertex input pass or the sampler splitter
\* has run on stages whose candidate names at use sites are all in the linker
\* section, no slot that held a candidate holds null; when the pass ended
\* without an exception, every such slot holds a node the pass has made.
C24_NeverInstallsNull ==
    \A pass \in RewritingPasses :
        (/\ history # <<>> /\ LastPass = pass
         /\ err \in {"none", "UnsupportedReplacementTarget"}
         /\ \A stage \in StagesOf(pass) : UseSiteNamesListed(pass, pre[stage])) =>
            \A stage \in StagesOf(pass) :
                \A slot \in RecordedSlots(pass, pre[stage]) :
                    /\ Held(program[stage], slot) # Null
                    /\ err = "none" => IsNew(pre[stage], Held(program[stage], slot))

\* the sampler splitter, run after the struct packer, has replaced the uses
\* of two samplers of the vertex stage, each by a node it made
C24_Witness ==
    /\ history = <<"MoveNonSamplerUniformsIntoStruct", "SplitSamplersIntoSamplersAndTextures">>
    /\ err = "none"
    /\ UseSiteNamesListed(LastPass, pre.EShLangVertex)
    /\ Cardinality({ pre.EShLangVertex.nodes[Held(pre.EShLangVertex, slot)].name :
                       slot \in RecordedSlots(LastPass, pre.EShLangVertex) }) = 2
    /\ \A slot \in RecordedSlots(LastPass, pre.EShLangVertex) :
          /\ Held(program.EShLangVertex, slot) # Null
          /\ IsNew(pre.EShLangVertex, Held(program.EShLangVertex, slot))

====
